---------------------------- MODULE Spec2Model ----------------------------
(***************************************************************************)
(* Model of the permission-scoped data-access hooks of bridge-lfu           *)
(* (hooks/index.ts: useLicenses, useEquipment, useClients, useClient,       *)
(* useSectors, useDashboard, useLicenseStats, useEquipmentStats).           *)
(*                                                                         *)
(* A JavaScript value that may be null/undefined is an option: <<>> is      *)
(* null/undefined and <<v>> is the value v.  A remote query is the record   *)
(* the supabase query builder accumulates; the backend executes it          *)
(* against the tables.                                                      *)
(***************************************************************************)
EXTENDS Integers, Sequences, FiniteSets, TLC

\* ------------------------------------------------------------------ bounds
\* number of rows of every backend table is 0..MaxRows
MaxRows == 3
\* largest page number a caller asks for
MaxPage == 2
\* largest page size a caller asks for
MaxLimit == 2

\* ------------------------------------------------------- program constants
DefaultLimit == 10
DefaultPage == 1
AlertsLimit == 10

\* ----------------------------------------------------------------- options
None == <<>>
Some(v) == <<v>>

\* JavaScript truthiness of an optional string / an optional number
TruthyStr(o) == o # None /\ o[1] # ""
TruthyNum(o) == o # None /\ o[1] # 0

\* ---------------------------------------------------------------- strings
\* the characters of the strings that are searched (names, search terms)
Letters(s) ==
  CASE s = "Ab" -> <<"A", "b">>
    [] s = "cd" -> <<"c", "d">>
    [] s = "a"  -> <<"a">>
    [] s = "B"  -> <<"B">>
    [] OTHER    -> <<>>

\* case folding, as ILIKE compares
Lower(c) ==
  CASE c = "A" -> "a"
    [] c = "B" -> "b"
    [] OTHER   -> c

LowerSeq(cs) == [k \in DOMAIN cs |-> Lower(cs[k])]

\* pat occurs in txt as a contiguous substring
Contains(txt, pat) ==
  \E off \in 0..(Len(txt) - Len(pat)) :
     \A k \in 1..Len(pat) : txt[off + k] = pat[k]

\* name ILIKE '%search%'
ILike(name, search) == Contains(LowerSeq(Letters(name)), LowerSeq(Letters(search)))

\* collation rank of a name, for ORDER BY name
NameRank(s) == IF s = "Ab" THEN 1 ELSE 2

\* ------------------------------------------------------------ backend rows
ClientIds == <<"c1", "c2", "c3", "c4", "c5", "c6", "c7", "c8">>

LicenseRow(i) ==
  [ id          |-> IF i % 3 = 2 THEN None ELSE Some(i),
    client_id   |-> Some(IF i % 3 = 0 THEN "c2" ELSE "c1"),
    name        |-> Some(IF i % 2 = 0 THEN "Ab" ELSE "cd"),
    status      |-> CASE i % 5 = 1 -> Some("expired")
                      [] i % 5 = 2 -> Some("active")
                      [] i % 5 = 3 -> None
                      [] i % 5 = 4 -> Some("about_to_expire")
                      [] OTHER     -> Some("cancelled"),
    cost        |-> IF i % 2 = 0 THEN None ELSE Some(10 * i),
    expiry_date |-> IF i % 4 = 1 THEN None
                    ELSE Some([y |-> 2025, m |-> 12 - (i % 6), d |-> 10]) ]

EquipmentRow(i) ==
  [ id        |-> IF i % 3 = 0 THEN None ELSE Some(i),
    client_id |-> Some(IF i % 2 = 0 THEN "c2" ELSE "c1"),
    name      |-> Some(IF i % 2 = 0 THEN "cd" ELSE "Ab"),
    type      |-> CASE i % 4 = 1 -> None
                    [] i % 4 = 2 -> Some("serveur")
                    [] i % 4 = 3 -> Some("pc")
                    [] OTHER     -> Some("imprimante"),
    status    |-> CASE i % 5 = 1 -> Some("actif")
                    [] i % 5 = 2 -> Some("bientot_obsolete")
                    [] i % 5 = 3 -> Some("obsolete")
                    [] i % 5 = 4 -> None
                    [] OTHER     -> Some("retire"),
    estimated_obsolescence_date |-> IF i % 3 = 1 THEN None ELSE Some(20 - i) ]

ClientRow(i) ==
  [ id     |-> IF i % 3 = 0 THEN None ELSE Some(ClientIds[i]),
    name   |-> Some(IF i % 2 = 0 THEN "Ab" ELSE "cd"),
    sector |-> CASE i % 3 = 1 -> Some("it")
                 [] i % 3 = 2 -> None
                 [] OTHER     -> Some("bank") ]

AlertRow(i) ==
  [ id          |-> IF i % 4 = 0 THEN None ELSE Some(i),
    client_id   |-> Some(IF i % 2 = 0 THEN "c2" ELSE "c1"),
    item_name   |-> Some("Ab"),
    alert_type  |-> Some("license_expiry"),
    alert_level |-> IF i % 3 = 0 THEN None ELSE Some("warning"),
    status      |-> Some("active"),
    alert_date  |-> Some(20 - i) ]

\* the rows of a table or view when every table holds n rows
Table(name, n) ==
  CASE name \in {"licenses", "v_licenses_with_client"}
         -> [i \in 1..n |-> LicenseRow(i)]
    [] name \in {"equipment", "v_equipment_with_client"}
         -> [i \in 1..n |-> EquipmentRow(i)]
    [] name = "clients"
         -> [i \in 1..n |-> ClientRow(i)]
    [] OTHER
         -> [i \in 1..n |-> AlertRow(i)]

\* ---------------------------------------------------------- query builder
\* supabase.from(table).select(columns, {count, head})
From(table, columns, count, head) ==
  [ table   |-> table,
    columns |-> columns,
    count   |-> count,
    head    |-> head,
    filters |-> <<>>,
    order   |-> None,
    range   |-> None,
    limit   |-> None,
    single  |-> FALSE ]

Eq(q, col, val)    == [q EXCEPT !.filters = Append(@, [op |-> "eq", col |-> col, val |-> val])]
ILikeF(q, col, val) == [q EXCEPT !.filters = Append(@, [op |-> "ilike", col |-> col, val |-> val])]
NotNull(q, col)    == [q EXCEPT !.filters = Append(@, [op |-> "notnull", col |-> col, val |-> ""])]
Order(q, col, nullsFirst) == [q EXCEPT !.order = Some([col |-> col, nullsFirst |-> nullsFirst])]
Range(q, from, to) == [q EXCEPT !.range = Some([from |-> from, to |-> to])]
Limit(q, n)        == [q EXCEPT !.limit = Some(n)]
Single(q)          == [q EXCEPT !.single = TRUE]

\* ------------------------------------------------------- backend execution
Sat(row, f) ==
  CASE f.op = "eq"    -> row[f.col] = Some(f.val)
    [] f.op = "ilike" -> row[f.col] # None /\ ILike(row[f.col][1], f.val)
    [] OTHER          -> row[f.col] # None

SatAll(row, fs) == \A k \in DOMAIN fs : Sat(row, fs[k])

\* a date as a number that orders as the calendar does
DayNumber(date) == (date.y * 12 + (date.m - 1)) * 31 + (date.d - 1)

SortKey(row, col) ==
  CASE col = "name"        -> NameRank(row[col][1])
    [] col = "expiry_date" -> DayNumber(row[col][1])
    [] OTHER               -> row[col][1]

\* row a is placed before row b by ORDER BY col ASC [NULLS FIRST|LAST]
Before(a, b, ord) ==
  IF a[ord.col] = None
    THEN ord.nullsFirst /\ b[ord.col] # None
    ELSE IF b[ord.col] = None
           THEN ~ord.nullsFirst
           ELSE SortKey(a, ord.col) < SortKey(b, ord.col)

RECURSIVE Insert(_, _, _)
Insert(sorted, r, ord) ==
  IF sorted = <<>> THEN <<r>>
  ELSE IF Before(r, Head(sorted), ord)
         THEN <<r>> \o sorted
         ELSE <<Head(sorted)>> \o Insert(Tail(sorted), r, ord)

RECURSIVE SortRows(_, _)
SortRows(rows, ord) ==
  IF rows = <<>> THEN <<>>
  ELSE Insert(SortRows(SubSeq(rows, 1, Len(rows) - 1), ord), rows[Len(rows)], ord)

Min(a, b) == IF a < b THEN a ELSE b
Max(a, b) == IF a > b THEN a ELSE b

\* rows from..to (0-based, inclusive) of an ordered row sequence
Slice(rows, from, to) == SubSeq(rows, from + 1, Min(to + 1, Len(rows)))

Project(row, columns) ==
  IF "*" \in columns THEN row ELSE [c \in columns |-> row[c]]

\* the steps of the backend's evaluation of query q
Matching(q, n) == SelectSeq(Table(q.table, n), LAMBDA r : SatAll(r, q.filters))

Ordered(q, rows) == IF q.order = None THEN rows ELSE SortRows(rows, q.order[1])

Ranged(q, rows) ==
  IF q.range = None THEN rows ELSE Slice(rows, q.range[1].from, q.range[1].to)

Limited(q, rows) ==
  IF q.limit = None THEN rows ELSE SubSeq(rows, 1, Min(q.limit[1], Len(rows)))

Projected(q, rows) == [k \in DOMAIN rows |-> Project(rows[k], q.columns)]

Answer(q, rows, total) ==
  IF q.single
    THEN IF Len(rows) = 1
           THEN [data |-> Some(rows[1]), count |-> None, error |-> None]
           ELSE [data |-> None, count |-> None,
                 error |-> Some([message |-> "not a single row", isError |-> FALSE])]
    ELSE [ data  |-> IF q.head THEN None ELSE Some(rows),
           count |-> IF q.count THEN Some(total) ELSE None,
           error |-> None ]

\* what the backend answers to query q when every table holds n rows
Execute(q, n) ==
  Answer(q, Projected(q, Limited(q, Ranged(q, Ordered(q, Matching(q, n))))),
         Len(Matching(q, n)))

\* the backend's answer when the request itself fails; whether the error object
\* is an instance of Error depends on the client library's version
Failure(isError) ==
  [data |-> None, count |-> None,
   error |-> Some([message |-> "backend down", isError |-> isError])]

\* how a request can go: answered, or failed with either kind of error object
Outcomes == {"ok", "fail", "failPlain"}

\* the outcomes explored for a render that passes parameters p: a request
\* fails only when it repeats the parameters of the render before
OutcomesFor(p, previous) == IF p = previous THEN Outcomes ELSE {"ok"}

Respond(q, n, outcome) ==
  CASE outcome = "ok"   -> Execute(q, n)
    [] outcome = "fail" -> Failure(TRUE)
    [] OTHER            -> Failure(FALSE)

\* ------------------------------------------------------------ permissions
\* the identities: nobody, an administrator, a user of client c1, and a
\* restricted user that no client has been assigned to yet
Users ==
  { None,
    Some([role |-> "admin",  client_id |-> None]),
    Some([role |-> "client", client_id |-> Some("c1")]),
    Some([role |-> "client", client_id |-> None]) }

\* usePermissions(user).canViewAllData()
CanViewAllData(u) == u # None /\ u[1].role = "admin"

\* usePermissions(user).getPermissions().clientAccess
ClientAccess(u) == IF u = None THEN None ELSE u[1].client_id

\* usePermissions(user).can(action, resource)
Can(u, action, resource) ==
  /\ u # None
  /\ \/ u[1].role = "admin"
     \/ action = "read" /\ resource # "reports"

\* a descriptor that takes the absence of an identity for full access
StablePermissionsOpenByDefault(u) ==
  [ canViewAllData     |-> u = None \/ CanViewAllData(u),
    clientAccess       |-> ClientAccess(u),
    canManageClients   |-> u = None \/ Can(u, "create", "clients") \/ Can(u, "update", "clients"),
    canManageLicenses  |-> u = None \/ Can(u, "create", "licenses") \/ Can(u, "update", "licenses"),
    canManageEquipment |-> u = None \/ Can(u, "create", "equipment") \/ Can(u, "update", "equipment"),
    canViewReports     |-> u = None \/ Can(u, "read", "reports") ]

\* useStablePermissions(): the memoised scope of the identity
StablePermissions(u) ==
  [ canViewAllData     |-> CanViewAllData(u),
    clientAccess       |-> ClientAccess(u),
    canManageClients   |-> Can(u, "create", "clients") \/ Can(u, "update", "clients"),
    canManageLicenses  |-> Can(u, "create", "licenses") \/ Can(u, "update", "licenses"),
    canManageEquipment |-> Can(u, "create", "equipment") \/ Can(u, "update", "equipment"),
    canViewReports     |-> Can(u, "read", "reports") ]

\* the test `!canViewAllData && clientAccess` that guards the owner filter
OwnerFilterApplies(perm) == ~perm.canViewAllData /\ TruthyStr(perm.clientAccess)

\* ----------------------------------------------------------------- params
\* the caller's parameters; a hook reads only its own fields
NoParams ==
  [ clientId |-> None, search |-> None, status |-> None, type |-> None,
    sector |-> None, page |-> None, limit |-> None, id |-> None ]

CeilDiv(a, b) == (a + b - 1) \div b

\* ------------------------------------------------------------ useLicenses
validLicenseStatuses == {"active", "expired", "about_to_expire", "cancelled"}

LicensesLimit(p) == IF TruthyNum(p.limit) THEN p.limit[1] ELSE DefaultLimit
LicensesPage(p)  == IF TruthyNum(p.page) THEN p.page[1] ELSE DefaultPage

LicensesOwnerFilter(q, perm) ==
  IF OwnerFilterApplies(perm) THEN Eq(q, "client_id", perm.clientAccess[1]) ELSE q

\* a status filter that takes any non-empty value
LicensesStatusFilterUnchecked(q, p) ==
  IF TruthyStr(p.status) THEN Eq(q, "status", p.status[1]) ELSE q

LicensesStatusFilter(q, p) ==
  IF TruthyStr(p.status) /\ p.status[1] \in validLicenseStatuses
    THEN Eq(q, "status", p.status[1]) ELSE q

\* a caller's clientId that replaces the filters set so far
LicensesClientIdFilterReplacing(q, p) ==
  IF TruthyStr(p.clientId)
    THEN [q EXCEPT !.filters = <<[op |-> "eq", col |-> "client_id", val |-> p.clientId[1]]>>]
    ELSE q

LicensesClientIdFilter(q, p) ==
  IF TruthyStr(p.clientId) THEN Eq(q, "client_id", p.clientId[1]) ELSE q

LicensesSearchFilter(q, p) ==
  IF TruthyStr(p.search) THEN ILikeF(q, "name", p.search[1]) ELSE q

\* an offset that counts pages from zero
LicensesOffsetFromZero(p) == LicensesPage(p) * LicensesLimit(p)

LicensesOffset(p) == (LicensesPage(p) - 1) * LicensesLimit(p)

\* the query fetchLicenses builds
LicensesQuery(perm, p) ==
  Order(
    Range(
      LicensesStatusFilter(
        LicensesSearchFilter(
          LicensesClientIdFilter(
            LicensesOwnerFilter(From("v_licenses_with_client", {"*"}, TRUE, FALSE), perm),
            p),
          p),
        p),
      LicensesOffset(p), LicensesOffset(p) + LicensesLimit(p) - 1),
    "expiry_date", FALSE)

\* the message the catch block of a list hook stores
CaughtMessage(err) == IF err.isError THEN <<err.message>> ELSE <<"Erreur lors du chargement">>

\* a filter that lets every row through
DropNullIdsKeepingAll(rows) == rows

DropNullIds(rows) == SelectSeq(rows, LAMBDA r : r.id # None)

LicensesTotalPages(count, limit) == CeilDiv(count, limit)

\* the state fetchLicenses leaves, given the backend's answer and the state before
FetchLicenses(p, resp, old) ==
  IF resp.error # None
    THEN [old EXCEPT !.error = Some(CaughtMessage(resp.error[1])), !.loading = FALSE]
    ELSE LET count == IF resp.count = None THEN 0 ELSE resp.count[1]
         IN  [ items      |-> IF resp.data = None THEN <<>> ELSE DropNullIds(resp.data[1]),
               pagination |-> [ count      |-> count,
                                page       |-> LicensesPage(p),
                                totalPages |-> LicensesTotalPages(count, LicensesLimit(p)) ],
               data       |-> None,
               error      |-> None,
               loading    |-> FALSE ]

\* ----------------------------------------------------------- useEquipment
\* the types under their English names
validEquipmentTypesEnglish == {"pc", "server", "router", "switch", "printer", "other"}

validEquipmentTypes == {"pc", "serveur", "routeur", "switch", "imprimante", "autre"}
validEquipmentStatuses == {"actif", "en_maintenance", "obsolete", "bientot_obsolete", "retire"}

EquipmentLimit(p) == IF TruthyNum(p.limit) THEN p.limit[1] ELSE DefaultLimit
EquipmentPage(p)  == IF TruthyNum(p.page) THEN p.page[1] ELSE DefaultPage

EquipmentOwnerFilter(q, perm) ==
  IF OwnerFilterApplies(perm) THEN Eq(q, "client_id", perm.clientAccess[1]) ELSE q

EquipmentTypeFilter(q, p) ==
  IF TruthyStr(p.type) /\ p.type[1] \in validEquipmentTypes
    THEN Eq(q, "type", p.type[1]) ELSE q

EquipmentStatusFilter(q, p) ==
  IF TruthyStr(p.status) /\ p.status[1] \in validEquipmentStatuses
    THEN Eq(q, "status", p.status[1]) ELSE q

EquipmentClientIdFilter(q, p) ==
  IF TruthyStr(p.clientId) THEN Eq(q, "client_id", p.clientId[1]) ELSE q

EquipmentSearchFilter(q, p) ==
  IF TruthyStr(p.search) THEN ILikeF(q, "name", p.search[1]) ELSE q

EquipmentOffset(p) == (EquipmentPage(p) - 1) * EquipmentLimit(p)

\* the query fetchEquipment builds
EquipmentQuery(perm, p) ==
  Order(
    Range(
      EquipmentStatusFilter(
        EquipmentTypeFilter(
          EquipmentSearchFilter(
            EquipmentClientIdFilter(
              EquipmentOwnerFilter(From("v_equipment_with_client", {"*"}, TRUE, FALSE), perm),
              p),
            p),
          p),
        p),
      EquipmentOffset(p), EquipmentOffset(p) + EquipmentLimit(p) - 1),
    "estimated_obsolescence_date", FALSE)

EquipmentTotalPages(count, limit) == CeilDiv(count, limit)

\* the state fetchEquipment leaves, given the backend's answer and the state before
FetchEquipment(p, resp, old) ==
  IF resp.error # None
    THEN [old EXCEPT !.error = Some(CaughtMessage(resp.error[1])), !.loading = FALSE]
    ELSE LET count == IF resp.count = None THEN 0 ELSE resp.count[1]
         IN  [ items      |-> IF resp.data = None THEN <<>> ELSE DropNullIds(resp.data[1]),
               pagination |-> [ count      |-> count,
                                page       |-> EquipmentPage(p),
                                totalPages |-> EquipmentTotalPages(count, EquipmentLimit(p)) ],
               data       |-> None,
               error      |-> None,
               loading    |-> FALSE ]

\* -------------------------------------------------------------- useClients
ClientsOwnerFilter(q, perm) ==
  IF OwnerFilterApplies(perm) THEN Eq(q, "id", perm.clientAccess[1]) ELSE q

ClientsSearchFilter(q, p) ==
  IF TruthyStr(p.search) THEN ILikeF(q, "name", p.search[1]) ELSE q

ClientsSectorFilter(q, p) ==
  IF TruthyStr(p.sector) THEN Eq(q, "sector", p.sector[1]) ELSE q

ClientsFrom(p) == (p.page[1] - 1) * p.limit[1]
ClientsTo(p)   == ClientsFrom(p) + p.limit[1] - 1

\* the query fetchClients builds (page and limit are required parameters)
ClientsQuery(perm, p) ==
  Range(
    Order(
      ClientsSectorFilter(
        ClientsSearchFilter(ClientsOwnerFilter(From("clients", {"*"}, TRUE, FALSE), perm), p),
        p),
      "name", FALSE),
    ClientsFrom(p), ClientsTo(p))

\* what a query function returns or throws; a message is the sequence of the
\* pieces it is concatenated from
Returned(value) == [ok |-> TRUE, value |-> Some(value), message |-> None]
Thrown(message) == [ok |-> FALSE, value |-> None, message |-> Some(message)]

\* fetchClients, given the backend's answer
FetchClients(resp) ==
  IF resp.error # None
    THEN Thrown(<<resp.error[1].message>>)
    ELSE Returned([ data  |-> resp.data,
                    count |-> IF resp.count = None THEN 0 ELSE resp.count[1] ])

\* useClients: enabled: isAuthenticated
ClientsEnabled(u) == u # None

\* --------------------------------------------------------------- useClient
ClientByIdQuery(id) == Single(Eq(From("clients", {"*"}, FALSE, FALSE), "id", id))

\* fetchClientById, given the backend's answer
FetchClientById(resp) ==
  IF resp.error # None THEN Thrown(<<resp.error[1].message>>) ELSE Returned(resp.data[1])

\* useClient: enabled: isAuthenticated && !!id
ClientEnabled(u, p) == u # None /\ TruthyStr(p.id)

\* -------------------------------------------------------------- useSectors
SectorsQuery == NotNull(From("clients", {"sector"}, FALSE, FALSE), "sector")

RECURSIVE Distinct(_)
\* the members of a sequence, each once, in order of first occurrence
Distinct(xs) ==
  IF xs = <<>> THEN <<>>
  ELSE LET init == Distinct(SubSeq(xs, 1, Len(xs) - 1))
           x    == xs[Len(xs)]
       IN  IF \E k \in DOMAIN init : init[k] = x THEN init ELSE Append(init, x)

\* rank of a sector name in JavaScript's default sort
SectorRank(x) == IF x = "bank" THEN 1 ELSE 2

RECURSIVE InsertSector(_, _)
InsertSector(sorted, x) ==
  IF sorted = <<>> THEN <<x>>
  ELSE IF SectorRank(x) < SectorRank(Head(sorted))
         THEN <<x>> \o sorted
         ELSE <<Head(sorted)>> \o InsertSector(Tail(sorted), x)

RECURSIVE SortSectors(_)
SortSectors(xs) ==
  IF xs = <<>> THEN <<>>
  ELSE InsertSector(SortSectors(SubSeq(xs, 1, Len(xs) - 1)), xs[Len(xs)])

\* fetchSectors, given the backend's answer
FetchSectors(resp) ==
  IF resp.error # None
    THEN Thrown(<<resp.error[1].message>>)
    ELSE LET rows    == resp.data[1]
             sectors == SelectSeq([k \in DOMAIN rows |-> rows[k].sector], TruthyStr)
         IN  Returned(SortSectors(Distinct([k \in DOMAIN sectors |-> sectors[k][1]])))

\* useSectors: enabled: isAuthenticated
SectorsEnabled(u) == u # None

\* ------------------------------------------------------- useEquipmentStats
\* Math.round((count / total) * 100)
Percentage(count, total) == (200 * count + total) \div (2 * total)

\* acc[key] = (acc[key] || 0) + 1 over the rows, for the column col
CountBy(rows, col) ==
  [ v \in {rows[k][col][1] : k \in DOMAIN rows}
      |-> Len(SelectSeq(rows, LAMBDA r : r[col][1] = v)) ]

\* Object.entries(stats).map(...): one chart entry per category, in the order
\* the categories first occur
ChartEntries(rows, col, total) ==
  LET names == Distinct([k \in DOMAIN rows |-> rows[k][col][1]])
  IN  [ k \in DOMAIN names |->
          [ name       |-> names[k],
            value      |-> CountBy(rows, col)[names[k]],
            percentage |-> Percentage(CountBy(rows, col)[names[k]], total) ] ]

EquipmentStatsOwnerFilter(q, perm) ==
  IF OwnerFilterApplies(perm) THEN Eq(q, "client_id", perm.clientAccess[1]) ELSE q

EquipmentStatsQuery(perm) ==
  EquipmentStatsOwnerFilter(From("equipment", {"type", "status", "client_id"}, FALSE, FALSE), perm)

ValidEquipment(rows) == SelectSeq(rows, LAMBDA r : TruthyStr(r.type) /\ TruthyStr(r.status))

EmptyEquipmentStats ==
  [ total     |-> 0,
    byType    |-> <<>>,
    byStatus  |-> <<>>,
    chartData |-> [types |-> <<>>, statuses |-> <<>>] ]

\* an aggregation whose total counts every fetched row
FetchEquipmentStatsOverAllRows(resp) ==
  IF resp.error # None
    THEN Thrown(<<"Erreur equipements: ", resp.error[1].message>>)
    ELSE LET valid == IF resp.data = None THEN <<>> ELSE ValidEquipment(resp.data[1])
         IN  IF Len(valid) = 0
               THEN Returned(EmptyEquipmentStats)
               ELSE Returned(
                      [ total     |-> Len(resp.data[1]),
                        byType    |-> CountBy(valid, "type"),
                        byStatus  |-> CountBy(valid, "status"),
                        chartData |-> [ types    |-> ChartEntries(valid, "type", Len(valid)),
                                        statuses |-> ChartEntries(valid, "status", Len(valid)) ] ])

\* fetchEquipmentStats, given the backend's answer
FetchEquipmentStats(resp) ==
  IF resp.error # None
    THEN Thrown(<<"Erreur equipements: ", resp.error[1].message>>)
    ELSE LET valid == IF resp.data = None THEN <<>> ELSE ValidEquipment(resp.data[1])
         IN  IF Len(valid) = 0
               THEN Returned(EmptyEquipmentStats)
               ELSE Returned(
                      [ total     |-> Len(valid),
                        byType    |-> CountBy(valid, "type"),
                        byStatus  |-> CountBy(valid, "status"),
                        chartData |-> [ types    |-> ChartEntries(valid, "type", Len(valid)),
                                        statuses |-> ChartEntries(valid, "status", Len(valid)) ] ])

\* --------------------------------------------------------- useLicenseStats
HistogramMonths == 6

IsLeap(y) == (y % 4 = 0 /\ y % 100 # 0) \/ y % 400 = 0

DaysInMonth(y, m) ==
  CASE m = 2               -> IF IsLeap(y) THEN 29 ELSE 28
    [] m \in {4, 6, 9, 11} -> 30
    [] OTHER               -> 31

\* date.setMonth(date.getMonth() + i): the day of the month is kept, and a day
\* past the end of the target month runs over into the month after it
SetMonthPlus(date, i) ==
  LET m0   == (date.m - 1) + i
      y1   == date.y + (m0 \div 12)
      m1   == (m0 % 12) + 1
      last == DaysInMonth(y1, m1)
  IN  IF date.d <= last
        THEN [y |-> y1, m |-> m1, d |-> date.d]
        ELSE [ y |-> IF m1 = 12 THEN y1 + 1 ELSE y1,
               m |-> IF m1 = 12 THEN 1 ELSE m1 + 1,
               d |-> date.d - last ]

\* toLocaleString('fr-FR', {month: 'short', year: 'numeric'})
MonthKey(date) == [month |-> date.m, year |-> date.y]

LicenseStatsOwnerFilter(q, perm) ==
  IF OwnerFilterApplies(perm) THEN Eq(q, "client_id", perm.clientAccess[1]) ELSE q

LicenseStatsQuery(perm) ==
  LicenseStatsOwnerFilter(
    From("licenses", {"status", "expiry_date", "client_id", "cost"}, FALSE, FALSE), perm)

\* validity that looks at the status alone
ValidLicensesByStatus(rows) == SelectSeq(rows, LAMBDA r : TruthyStr(r.status))

ValidLicenses(rows) == SelectSeq(rows, LAMBDA r : TruthyStr(r.status) /\ r.expiry_date # None)

EmptyLicenseStats ==
  [ total         |-> 0,
    byStatus      |-> <<>>,
    totalValue    |-> 0,
    monthlyExpiry |-> <<>>,
    chartData     |-> [statuses |-> <<>>, expiry |-> <<>>] ]

MonthlyExpiry(valid, now) ==
  [ k \in 1..HistogramMonths |->
      LET date == SetMonthPlus(now, k - 1)
      IN  [ month |-> MonthKey(date),
            count |-> Len(SelectSeq(valid, LAMBDA r : /\ r.expiry_date # None
                                                  /\ r.expiry_date[1].m = date.m
                                                  /\ r.expiry_date[1].y = date.y)) ] ]

RECURSIVE TotalValue(_)
TotalValue(rows) ==
  IF rows = <<>> THEN 0
  ELSE TotalValue(SubSeq(rows, 1, Len(rows) - 1))
         + (IF TruthyNum(rows[Len(rows)].cost) THEN rows[Len(rows)].cost[1] ELSE 0)

\* fetchLicenseStats, given the backend's answer and the current date
FetchLicenseStats(resp, now) ==
  IF resp.error # None
    THEN Thrown(<<"Erreur licences: ", resp.error[1].message>>)
    ELSE LET valid == IF resp.data = None THEN <<>> ELSE ValidLicenses(resp.data[1])
         IN  IF Len(valid) = 0
               THEN Returned(EmptyLicenseStats)
               ELSE Returned(
                      [ total         |-> Len(valid),
                        byStatus      |-> CountBy(valid, "status"),
                        totalValue    |-> TotalValue(valid),
                        monthlyExpiry |-> MonthlyExpiry(valid, now),
                        chartData     |->
                          [ statuses |-> ChartEntries(valid, "status", Len(valid)),
                            expiry   |-> SelectSeq(MonthlyExpiry(valid, now),
                                                   LAMBDA e : e.count > 0) ] ])

\* ------------------------------------------------------------ useDashboard
AlertsView(perm) == IF perm.canViewAllData THEN "v_dashboard_alerts" ELSE "v_client_dashboard"

AlertsOwnerFilter(q, perm) ==
  IF OwnerFilterApplies(perm) THEN Eq(q, "client_id", perm.clientAccess[1]) ELSE q

AlertsQuery(perm) ==
  Limit(Order(AlertsOwnerFilter(From(AlertsView(perm), {"*"}, FALSE, FALSE), perm),
              "alert_date", FALSE),
        AlertsLimit)

ValidAlerts(rows) ==
  SelectSeq(rows, LAMBDA a : /\ a.id # None
                             /\ TruthyStr(a.item_name)
                             /\ TruthyStr(a.alert_type)
                             /\ TruthyStr(a.alert_level)
                             /\ TruthyStr(a.status))

AllClientsCountQuery == From("clients", {"*"}, TRUE, TRUE)
AllLicensesQuery     == From("licenses", {"status"}, TRUE, FALSE)
AllEquipmentQuery    == From("equipment", {"status"}, TRUE, FALSE)
ClientLicensesQuery(perm)  == Eq(From("licenses", {"status"}, FALSE, FALSE), "client_id", perm.clientAccess[1])
ClientEquipmentQuery(perm) == Eq(From("equipment", {"status"}, FALSE, FALSE), "client_id", perm.clientAccess[1])

\* the rows a settled branch of Promise.allSettled contributes
BranchRows(resp) == IF resp.data = None THEN <<>> ELSE resp.data[1]

SoonObsoleteStatus == "bientot_obsolete"

DashboardStats(totalClients, licenses, equipment) ==
  [ total_clients            |-> totalClients,
    total_licenses           |-> Len(licenses),
    total_equipment          |-> Len(equipment),
    expired_licenses         |-> Len(SelectSeq(licenses, LAMBDA l : l.status = Some("expired"))),
    about_to_expire_licenses |-> Len(SelectSeq(licenses, LAMBDA l : l.status = Some("about_to_expire"))),
    obsolete_equipment       |-> Len(SelectSeq(equipment, LAMBDA e : e.status = Some("obsolete"))),
    soon_obsolete_equipment  |-> Len(SelectSeq(equipment, LAMBDA e : e.status = Some(SoonObsoleteStatus))) ]

\* the outcomes of the dashboard's requests, one per request
DashboardOutcomes ==
  [alerts : {"ok", "fail"}, clients : {"ok", "fail"}, licenses : {"ok", "fail"}, equipment : {"ok", "fail"}]
AllOk == [alerts |-> "ok", clients |-> "ok", licenses |-> "ok", equipment |-> "ok"]

\* a statistics branch that gives up when one of its requests fails
AdminDashboardAllOrNothing(n, outs, alerts) ==
  IF outs.clients # "ok" \/ outs.licenses # "ok" \/ outs.equipment # "ok"
    THEN Thrown(<<"backend down">>)
    ELSE Returned([ stats  |-> DashboardStats(n, BranchRows(Execute(AllLicensesQuery, n)),
                                              BranchRows(Execute(AllEquipmentQuery, n))),
                    alerts |-> alerts ])

\* the statistics branch of an identity that views all data
AdminDashboard(n, outs, alerts) ==
  LET clientsRes   == Respond(AllClientsCountQuery, n, outs.clients)
      licensesRes  == Respond(AllLicensesQuery, n, outs.licenses)
      equipmentRes == Respond(AllEquipmentQuery, n, outs.equipment)
      clientsCount == IF clientsRes.count = None THEN 0 ELSE clientsRes.count[1]
  IN  Returned([ stats  |-> DashboardStats(clientsCount, BranchRows(licensesRes),
                                           BranchRows(equipmentRes)),
                 alerts |-> alerts ])

\* the statistics branch of an identity restricted to one client
ClientDashboard(perm, n, outs, alerts) ==
  LET licensesRes  == Respond(ClientLicensesQuery(perm), n, outs.licenses)
      equipmentRes == Respond(ClientEquipmentQuery(perm), n, outs.equipment)
  IN  Returned([ stats  |-> DashboardStats(1, BranchRows(licensesRes),
                                           BranchRows(equipmentRes)),
                 alerts |-> alerts ])

\* fetchDashboardData: what it returns or throws
DashboardResult(perm, n, outs) ==
  LET alertsResp == Respond(AlertsQuery(perm), n, outs.alerts)
  IN  IF alertsResp.error # None
        THEN Thrown(<<"Erreur alertes: ", alertsResp.error[1].message>>)
      ELSE IF perm.canViewAllData
        THEN AdminDashboard(n, outs, ValidAlerts(BranchRows(alertsResp)))
      ELSE IF ~TruthyStr(perm.clientAccess)
        THEN Thrown(<<"Acces client non defini pour les permissions restreintes.">>)
        ELSE ClientDashboard(perm, n, outs, ValidAlerts(BranchRows(alertsResp)))

\* fetchDashboardData: the requests one call issues
DashboardRequests(perm, outs) ==
  IF outs.alerts # "ok"
    THEN <<AlertsQuery(perm)>>
  ELSE IF perm.canViewAllData
    THEN <<AlertsQuery(perm), AllClientsCountQuery, AllLicensesQuery, AllEquipmentQuery>>
  ELSE IF ~TruthyStr(perm.clientAccess)
    THEN <<AlertsQuery(perm)>>
    ELSE <<AlertsQuery(perm), ClientLicensesQuery(perm), ClientEquipmentQuery(perm)>>

\* ------------------------------------------------------------ react-query
\* retry: 3 (also the library's default): a failing query function is called
\* once and then three more times before the error is surfaced
QueryRetry == 3

\* the requests of a run of a query function that issues qs on each attempt
Attempts(qs, ok) ==
  IF ok THEN qs
  ELSE [k \in 1..(Len(qs) * (1 + QueryRetry)) |-> qs[((k - 1) % Len(qs)) + 1]]

\* ------------------------------------------------------------------ state
VARIABLES
  user,     \* the signed-in profile, or None
  dbSize,   \* the number of rows of every backend table
  today,    \* the current date
  hook,     \* the hook the mounted component uses
  params,   \* the parameters the component passes to the hook
  view,     \* the hook's state: items, pagination, data, error, loading
  net,      \* the remote queries issued by the latest run of the hook
  last,     \* the scope, parameters and outcome of the latest run
  flight,   \* the runs or awaits that have started and not yet settled
  channels  \* what the realtime / auth client holds: subscriptions, session

vars == <<user, dbSize, today, hook, params, view, net, last, flight, channels>>

\* no run in flight, no instance of useRealtimeSubscription mounted
NoFlight   == <<>>
NoChannels == <<>>

Hooks ==
  { "licenses", "equipment", "clients", "client", "sectors",
    "dashboard", "licenseStats", "equipmentStats" }

Dates == { [y |-> 2025, m |-> 7, d |-> 15], [y |-> 2025, m |-> 8, d |-> 31] }

\* useState's initial values; a query without data
InitialView ==
  [ items      |-> <<>>,
    pagination |-> [count |-> 0, page |-> 1, totalPages |-> 1],
    data       |-> None,
    error      |-> None,
    loading    |-> TRUE ]

\* a query that is disabled and has no data
IdleView == [InitialView EXCEPT !.loading = FALSE]

\* the state of a query after its query function returned or threw
QueryView(result, old, sameKey) ==
  IF result.ok
    THEN [InitialView EXCEPT !.data = result.value, !.loading = FALSE]
    ELSE [InitialView EXCEPT !.data = IF sameKey THEN old.data ELSE None,
                             !.error = result.message,
                             !.loading = FALSE]

InitialParams(h) ==
  IF h = "clients" THEN [NoParams EXCEPT !.page = Some(1), !.limit = Some(1)] ELSE NoParams

NoRun ==
  [ perm |-> StablePermissions(None), params |-> NoParams, outcome |-> "none", outs |-> AllOk ]

Ran(perm, p, outcome) == [perm |-> perm, params |-> p, outcome |-> outcome, outs |-> AllOk]

Init ==
  /\ user \in Users
  /\ dbSize \in 0..MaxRows
  /\ hook \in Hooks
  /\ today \in IF hook = "licenseStats" THEN Dates ELSE {[y |-> 2025, m |-> 7, d |-> 15]}
  /\ params = InitialParams(hook)
  /\ view = InitialView
  /\ net = <<>>
  /\ last = NoRun
  /\ flight = NoFlight
  /\ channels = NoChannels

\* the values a caller passes in each field
FieldValues(f) ==
  CASE f = "clientId" -> {None, Some("c2")}
    [] f = "search"   -> {None, Some("a")}
    [] f = "status"   -> IF hook = "licenses"
                           THEN {None, Some("active"), Some("soon_obsolete")}
                           ELSE {None, Some("bientot_obsolete"), Some("soon_obsolete")}
    [] f = "type"     -> {None, Some("serveur"), Some("server")}
    [] f = "sector"   -> {None, Some("it")}
    [] f = "page"     -> (IF hook = "clients" THEN {} ELSE {None})
                           \cup {Some(k) : k \in 1..MaxPage}
    [] f = "limit"    -> (IF hook = "clients" THEN {} ELSE {None})
                           \cup {Some(k) : k \in 1..MaxLimit}
    [] OTHER          -> {None, Some("c1"), Some("c2")}

\* a render of the mounted component: the fetch at mount or a manual refetch
\* (nothing changed), new parameters in one field, or a new identity
Renders(fields) ==
  {<<user, params>>}
    \cup UNION {{<<user, [params EXCEPT ![f] = v]>> : v \in FieldValues(f)} : f \in fields}
    \cup {<<u, params>> : u \in Users}

LicensesFields == {"clientId", "search", "status", "page", "limit"}

\* useLicenses: a render, and the fetchLicenses run its effect (or refetch) starts
UseLicenses ==
  /\ hook = "licenses"
  /\ \E r \in Renders(LicensesFields) : \E outcome \in OutcomesFor(r[2], params) :
       LET perm == StablePermissions(r[1])
           q    == LicensesQuery(perm, r[2])
           resp == Respond(q, dbSize, outcome)
       IN  /\ user' = r[1]
           /\ params' = r[2]
           /\ view' = FetchLicenses(r[2], resp, view)
           /\ net' = <<q>>
           /\ last' = Ran(perm, r[2], outcome)
  /\ UNCHANGED <<dbSize, today, hook, flight, channels>>

EquipmentFields == {"clientId", "search", "type", "status", "page", "limit"}

\* useEquipment: a render, and the fetchEquipment run its effect (or refetch) starts
UseEquipment ==
  /\ hook = "equipment"
  /\ \E r \in Renders(EquipmentFields) : \E outcome \in OutcomesFor(r[2], params) :
       LET perm == StablePermissions(r[1])
           q    == EquipmentQuery(perm, r[2])
           resp == Respond(q, dbSize, outcome)
       IN  /\ user' = r[1]
           /\ params' = r[2]
           /\ view' = FetchEquipment(r[2], resp, view)
           /\ net' = <<q>>
           /\ last' = Ran(perm, r[2], outcome)
  /\ UNCHANGED <<dbSize, today, hook, flight, channels>>

ClientsFields == {"search", "sector", "page", "limit"}

\* useClients: the query key holds the parameters and the permissions, so a
\* render with new ones is a new query, run if enabled; refetch() runs the
\* query function whether or not the query is enabled
UseClients ==
  /\ hook = "clients"
  /\ \E r \in Renders(ClientsFields) : \E outcome \in OutcomesFor(r[2], params) :
       LET perm    == StablePermissions(r[1])
           q       == ClientsQuery(perm, r[2])
           result  == FetchClients(Respond(q, dbSize, outcome))
           refetch == r = <<user, params>>
           runs    == refetch \/ ClientsEnabled(r[1])
       IN  /\ user' = r[1]
           /\ params' = r[2]
           /\ view' = IF runs THEN QueryView(result, view, refetch) ELSE IdleView
           /\ net' = IF runs THEN Attempts(<<q>>, result.ok) ELSE <<>>
           /\ last' = Ran(perm, r[2], IF runs THEN outcome ELSE "idle")
  /\ UNCHANGED <<dbSize, today, hook, flight, channels>>

ClientFields == {"id"}

\* useClient: the query key is the id alone
UseClient ==
  /\ hook = "client"
  /\ \E r \in Renders(ClientFields) : \E outcome \in Outcomes :
       LET perm       == StablePermissions(r[1])
           refetch    == r = <<user, params>> /\ params.id # None
           keyChanged == r[2] # params
           becomesOn  == ClientEnabled(r[1], r[2]) /\ ~ClientEnabled(user, params)
           runs       == \/ refetch
                         \/ keyChanged /\ ClientEnabled(r[1], r[2])
                         \/ ~keyChanged /\ becomesOn
           q          == ClientByIdQuery(r[2].id[1])
           result     == FetchClientById(Respond(q, dbSize, outcome))
       IN  /\ user' = r[1]
           /\ params' = r[2]
           /\ view' = IF runs THEN QueryView(result, view, ~keyChanged)
                      ELSE IF keyChanged THEN IdleView ELSE view
           /\ net' = IF runs THEN Attempts(<<q>>, result.ok) ELSE <<>>
           /\ last' = Ran(perm, r[2], IF runs THEN outcome ELSE "idle")
  /\ UNCHANGED <<dbSize, today, hook, flight, channels>>

\* useSectors: one key for every identity, and data that never goes stale
UseSectors ==
  /\ hook = "sectors"
  /\ \E r \in Renders({}) : \E outcome \in Outcomes :
       LET perm    == StablePermissions(r[1])
           refetch == r[1] = user
           runs    == \/ refetch
                      \/ SectorsEnabled(r[1]) /\ ~SectorsEnabled(user) /\ view.data = None
           result  == FetchSectors(Respond(SectorsQuery, dbSize, outcome))
       IN  /\ user' = r[1]
           /\ view' = IF runs THEN QueryView(result, view, TRUE) ELSE view
           /\ net' = IF runs THEN Attempts(<<SectorsQuery>>, result.ok) ELSE <<>>
           /\ last' = Ran(perm, params, IF runs THEN outcome ELSE "idle")
  /\ UNCHANGED <<dbSize, today, hook, params, flight, channels>>

\* the part of the permissions that the aggregation hooks put in their query key
ScopeKey(perm) == <<perm.canViewAllData, perm.clientAccess>>

\* useDashboard: always enabled; a new scope is a new query
UseDashboard ==
  /\ hook = "dashboard"
  /\ \E r \in Renders({}) : \E outs \in DashboardOutcomes :
       LET perm       == StablePermissions(r[1])
           refetch    == r[1] = user
           keyChanged == ScopeKey(perm) # ScopeKey(StablePermissions(user))
           runs       == refetch \/ keyChanged
           result     == DashboardResult(perm, dbSize, outs)
       IN  /\ user' = r[1]
           /\ view' = IF runs THEN QueryView(result, view, ~keyChanged) ELSE view
           /\ net' = IF runs THEN Attempts(DashboardRequests(perm, outs), result.ok) ELSE <<>>
           /\ last' = [ perm    |-> perm,
                        params  |-> params,
                        outcome |-> IF ~runs THEN "idle"
                                    ELSE IF outs = AllOk THEN "ok" ELSE "fail",
                        outs    |-> outs ]
  /\ UNCHANGED <<dbSize, today, hook, params, flight, channels>>

\* useLicenseStats: always enabled; a new scope is a new query
UseLicenseStats ==
  /\ hook = "licenseStats"
  /\ \E r \in Renders({}) : \E outcome \in Outcomes :
       LET perm       == StablePermissions(r[1])
           refetch    == r[1] = user
           keyChanged == ScopeKey(perm) # ScopeKey(StablePermissions(user))
           runs       == refetch \/ keyChanged
           q          == LicenseStatsQuery(perm)
           result     == FetchLicenseStats(Respond(q, dbSize, outcome), today)
       IN  /\ user' = r[1]
           /\ view' = IF runs THEN QueryView(result, view, ~keyChanged) ELSE view
           /\ net' = IF runs THEN Attempts(<<q>>, result.ok) ELSE <<>>
           /\ last' = Ran(perm, params, IF runs THEN outcome ELSE "idle")
  /\ UNCHANGED <<dbSize, today, hook, params, flight, channels>>

\* useEquipmentStats: always enabled; a new scope is a new query
UseEquipmentStats ==
  /\ hook = "equipmentStats"
  /\ \E r \in Renders({}) : \E outcome \in Outcomes :
       LET perm       == StablePermissions(r[1])
           refetch    == r[1] = user
           keyChanged == ScopeKey(perm) # ScopeKey(StablePermissions(user))
           runs       == refetch \/ keyChanged
           q          == EquipmentStatsQuery(perm)
           result     == FetchEquipmentStats(Respond(q, dbSize, outcome))
       IN  /\ user' = r[1]
           /\ view' = IF runs THEN QueryView(result, view, ~keyChanged) ELSE view
           /\ net' = IF runs THEN Attempts(<<q>>, result.ok) ELSE <<>>
           /\ last' = Ran(perm, params, IF runs THEN outcome ELSE "idle")
  /\ UNCHANGED <<dbSize, today, hook, params, flight, channels>>

Next ==
  \/ UseLicenses
  \/ UseEquipment
  \/ UseClients
  \/ UseClient
  \/ UseSectors
  \/ UseDashboard
  \/ UseLicenseStats
  \/ UseEquipmentStats

Spec == Init /\ [][Next]_vars

\* ====================================================================
\* Runs that take time: a second specification in which a run of a hook starts
\* in one step and each of its requests is answered in a later one, so that
\* runs overlap and a failing query function is called again
\* ====================================================================
MaxInFlight == 2

AsyncListHooks  == {"licenses", "equipment"}
AsyncQueryHooks == {"dashboard", "licenseStats", "equipmentStats"}

\* a run that has started: its scope, its parameters, its failed attempts
Run(perm, p) == [perm |-> perm, params |-> p, failures |-> 0]

RemoveAt(seq, k) == SubSeq(seq, 1, k - 1) \o SubSeq(seq, k + 1, Len(seq))

Settled(perm, p, outcome, outs, attempts, failed) ==
  [ perm |-> perm, params |-> p, outcome |-> outcome, outs |-> outs,
    attempts |-> attempts, failed |-> failed ]

NothingSettled == Settled(StablePermissions(None), NoParams, "none", AllOk, 0, FALSE)

AsyncInit ==
  /\ user \in Users
  /\ dbSize \in 0..MaxRows
  /\ hook \in AsyncListHooks \cup AsyncQueryHooks
  /\ today = [y |-> 2025, m |-> 7, d |-> 15]
  /\ params = NoParams
  /\ view = InitialView
  /\ net = <<>>
  /\ last = NothingSettled
  /\ flight = NoFlight
  /\ channels = NoChannels

ListQuery(h, perm, p) ==
  IF h = "licenses" THEN LicensesQuery(perm, p) ELSE EquipmentQuery(perm, p)

\* the state a run of fetchLicenses or fetchEquipment leaves when its request
\* is answered: the success path does not touch the error, the failure path
\* does not touch the items
ListSettled(h, p, resp, old) ==
  IF resp.error # None
    THEN (IF h = "licenses" THEN FetchLicenses(p, resp, old) ELSE FetchEquipment(p, resp, old))
    ELSE [(IF h = "licenses" THEN FetchLicenses(p, resp, old) ELSE FetchEquipment(p, resp, old))
            EXCEPT !.error = old.error]

\* useLicenses, useEquipment: a render (new page, new identity, or refetch)
\* whose effect starts a run: setLoading(true), setError(null), the request
StartList ==
  /\ hook \in AsyncListHooks
  /\ Len(flight) < MaxInFlight
  /\ \E r \in Renders({"page"}) :
       /\ user' = r[1]
       /\ params' = r[2]
       /\ view' = [view EXCEPT !.loading = TRUE, !.error = None]
       /\ flight' = Append(flight, Run(StablePermissions(r[1]), r[2]))
       /\ net' = <<ListQuery(hook, StablePermissions(r[1]), r[2])>>
  /\ last' = [last EXCEPT !.failed = IF flight = NoFlight THEN FALSE ELSE @]
  /\ UNCHANGED <<dbSize, today, hook, channels>>

\* the answer to the request of one of the runs in flight, in any order
AnswerList ==
  /\ hook \in AsyncListHooks
  /\ \E k \in DOMAIN flight : \E outcome \in {"ok", "fail"} :
       /\ view' = ListSettled(hook, flight[k].params,
                     Respond(ListQuery(hook, flight[k].perm, flight[k].params), dbSize, outcome),
                     view)
       /\ flight' = RemoveAt(flight, k)
       /\ last' = Settled(flight[k].perm, flight[k].params, outcome, AllOk, 1,
                          last.failed \/ outcome # "ok")
  /\ UNCHANGED <<user, dbSize, today, hook, params, net, channels>>

\* what one call of the hook's query function returns or throws
QueryResult(h, perm, n, outs, now) ==
  CASE h = "dashboard"    -> DashboardResult(perm, n, outs)
    [] h = "licenseStats" -> FetchLicenseStats(Respond(LicenseStatsQuery(perm), n, outs.licenses), now)
    [] OTHER              -> FetchEquipmentStats(Respond(EquipmentStatsQuery(perm), n, outs.equipment))

\* the requests one call of the hook's query function issues
QueryRequests(h, perm, outs) ==
  CASE h = "dashboard"    -> DashboardRequests(perm, outs)
    [] h = "licenseStats" -> <<LicenseStatsQuery(perm)>>
    [] OTHER              -> <<EquipmentStatsQuery(perm)>>

\* how one call of the query function can go: every request answered, or the
\* one that decides it refused
AttemptOutcomes(h) ==
  CASE h = "dashboard"    -> {AllOk, [AllOk EXCEPT !.alerts = "fail"]}
    [] h = "licenseStats" -> {AllOk, [AllOk EXCEPT !.licenses = "fail"]}
    [] OTHER              -> {AllOk, [AllOk EXCEPT !.equipment = "fail"]}

\* a loading flag that is true whenever a fetch is going on
QueryLoadingWhileFetching(isFetching, isPending) == isFetching

\* loading: isLoading, which the cache defines as isFetching && isPending
QueryLoading(isFetching, isPending) == isFetching /\ isPending

\* a retry policy that never retries
RetriesLeftNever(failures) == FALSE

\* retry: 3
RetriesLeft(failures) == failures < QueryRetry

\* useDashboard, useLicenseStats, useEquipmentStats: the cache starts a fetch,
\* at mount or for a new key (a query without data: pending), or as a refresh
\* of the current key (stale data, window focus, reconnect, refetch())
StartQuery ==
  /\ hook \in AsyncQueryHooks
  /\ flight = NoFlight
  /\ \E u \in Users :
       /\ user' = u
       /\ view' = IF ScopeKey(StablePermissions(u)) # ScopeKey(StablePermissions(user))
                    THEN InitialView
                    ELSE [view EXCEPT !.loading = QueryLoading(TRUE, view.data = None),
                                      !.error = IF view.data = None THEN None ELSE @]
       /\ flight' = <<Run(StablePermissions(u), params)>>
  /\ net' = <<>>
  /\ last' = [last EXCEPT !.failed = FALSE]
  /\ UNCHANGED <<dbSize, today, hook, params, channels>>

\* one call of the query function settles: data, or a failure that is retried
\* while retries are left and surfaced when none is
AttemptQuery ==
  /\ hook \in AsyncQueryHooks
  /\ flight # NoFlight
  /\ \E outs \in AttemptOutcomes(hook) :
       LET result == QueryResult(hook, flight[1].perm, dbSize, outs, today)
           retry  == ~result.ok /\ RetriesLeft(flight[1].failures)
       IN  /\ view' = IF retry THEN view ELSE QueryView(result, view, TRUE)
           /\ flight' = IF retry THEN <<[flight[1] EXCEPT !.failures = @ + 1]>> ELSE NoFlight
           /\ net' = net \o QueryRequests(hook, flight[1].perm, outs)
           /\ last' = Settled(flight[1].perm, flight[1].params,
                              IF result.ok THEN "ok" ELSE IF retry THEN "retry" ELSE "fail",
                              outs, flight[1].failures + 1, last.failed \/ ~result.ok)
  /\ UNCHANGED <<user, dbSize, today, hook, params, channels>>

AsyncNext ==
  \/ StartList
  \/ AnswerList
  \/ StartQuery
  \/ AttemptQuery

AsyncSpec == AsyncInit /\ [][AsyncNext]_vars

\* ------------------------------------------------ useRealtimeSubscription
\* channels.mounts[i] is what the effect of mounted instance i last ran with
\* (its dependencies and the subscription its cleanup closes over), None when
\* the instance is not mounted; channels.active is the list of subscribed
\* channels of the browser's supabase client.
MaxInstances == 3
MaxChannels  == MaxInstances + 1

Instances == 1..MaxInstances
Tables    == {"licenses", "equipment"}
Callbacks == {"onChange", "onChangeRecreated"}

Channel(i, table, callback) ==
  [owner    |-> i,
   topic    |-> <<table, "_changes">>,
   event    |-> "*",
   schema   |-> "public",
   table    |-> table,
   callback |-> callback]

Subscribe(active, channel) == Append(active, channel)

Unsubscribe(active, subscription) ==
  SelectSeq(active, LAMBDA c : c # subscription)

EffectCleanupMissing(active, subscription) == active

EffectCleanup(active, subscription) == Unsubscribe(active, subscription)

Mounted(table, callback, subscription) ==
  [table |-> table, callback |-> callback, subscription |-> subscription]

ActiveOf(i) == SelectSeq(channels.active, LAMBDA c : c.owner = i)

Rendered(op, i) == [op |-> op, instance |-> i, before |-> Len(ActiveOf(i))]

DepsChange(mount, table, callback) ==
  IF mount.table # table /\ mount.callback # callback THEN "both"
  ELSE IF mount.table # table THEN "table"
  ELSE IF mount.callback # callback THEN "callback"
  ELSE "same"

RealtimeInit ==
  /\ user = None
  /\ dbSize = 0
  /\ hook = "realtime"
  /\ today = [y |-> 2025, m |-> 7, d |-> 15]
  /\ params = NoParams
  /\ view = InitialView
  /\ net = <<>>
  /\ flight = NoFlight
  /\ channels = [mounts |-> [i \in Instances |-> None], active |-> <<>>]
  /\ last = Rendered("none", 1)

Mount ==
  /\ hook = "realtime"
  /\ Len(channels.active) < MaxChannels
  /\ \E i \in Instances, table \in Tables, callback \in Callbacks :
       /\ channels.mounts[i] = None
       /\ channels' =
            [mounts |-> [channels.mounts EXCEPT ![i] =
                           Some(Mounted(table, callback, Channel(i, table, callback)))],
             active |-> Subscribe(channels.active, Channel(i, table, callback))]
       /\ last' = Rendered("mount", i)
  /\ UNCHANGED <<user, dbSize, today, hook, params, view, net, flight>>

Rerender ==
  /\ hook = "realtime"
  /\ \E i \in Instances, table \in Tables, callback \in Callbacks :
       /\ channels.mounts[i] # None
       /\ IF DepsChange(channels.mounts[i][1], table, callback) = "same"
          THEN channels' = channels
          ELSE /\ Len(EffectCleanup(channels.active,
                                    channels.mounts[i][1].subscription)) < MaxChannels
               /\ channels' =
                    [mounts |-> [channels.mounts EXCEPT ![i] =
                                   Some(Mounted(table, callback, Channel(i, table, callback)))],
                     active |-> Subscribe(EffectCleanup(channels.active,
                                                        channels.mounts[i][1].subscription),
                                          Channel(i, table, callback))]
       /\ last' = Rendered(DepsChange(channels.mounts[i][1], table, callback), i)
  /\ UNCHANGED <<user, dbSize, today, hook, params, view, net, flight>>

Unmount ==
  /\ hook = "realtime"
  /\ \E i \in Instances :
       /\ channels.mounts[i] # None
       /\ channels' =
            [mounts |-> [channels.mounts EXCEPT ![i] = None],
             active |-> EffectCleanup(channels.active,
                                      channels.mounts[i][1].subscription)]
       /\ last' = Rendered("unmount", i)
  /\ UNCHANGED <<user, dbSize, today, hook, params, view, net, flight>>

RealtimeNext ==
  \/ Mount
  \/ Rerender
  \/ Unmount

RealtimeSpec == RealtimeInit /\ [][RealtimeNext]_vars

\* ---------------------------------------------------- useStablePermissions
\* view holds the three useMemo cells of one mounted useStablePermissions;
\* an object the hook creates is told from another by its ref.
MaxRenders == 4

\* usePermissions(user).can: one function reference per identity
CanRef(u) == <<"can", u>>

\* usePermissions(user): the object may be re-created by a render
PermissionsRef(u, generation) == <<"permissions", u, generation>>

\* useMemo(factory, deps): the cell is kept when the dependencies are the same
UseMemo(cell, deps, value) ==
  IF cell.deps = deps THEN cell ELSE [deps |-> deps, value |-> value]

\* a dependency list that leaves the can function out
DescriptorDepsWithoutCan(canViewAllData, clientAccess, can) ==
  <<canViewAllData, clientAccess>>

DescriptorDeps(canViewAllData, clientAccess, can) ==
  <<canViewAllData, clientAccess, can>>

\* the object literal the last useMemo builds
Descriptor(u, canViewAllData, clientAccess, ref) ==
  [ref   |-> ref,
   value |-> [StablePermissions(u) EXCEPT !.canViewAllData = canViewAllData,
                                          !.clientAccess = clientAccess],
   can   |-> CanRef(u)]

MemoCells(u, permissions, old) ==
  [permissions    |-> permissions,
   canViewAllData |-> UseMemo(old.canViewAllData, <<permissions>>, CanViewAllData(u)),
   clientAccess   |-> UseMemo(old.clientAccess, <<permissions>>, ClientAccess(u)),
   descriptor     |->
     UseMemo(old.descriptor,
             DescriptorDeps(
               UseMemo(old.canViewAllData, <<permissions>>, CanViewAllData(u)).value,
               UseMemo(old.clientAccess, <<permissions>>, ClientAccess(u)).value,
               CanRef(u)),
             Descriptor(u,
               UseMemo(old.canViewAllData, <<permissions>>, CanViewAllData(u)).value,
               UseMemo(old.clientAccess, <<permissions>>, ClientAccess(u)).value,
               old.descriptor.value.ref + 1))]

NoCells ==
  [permissions    |-> <<>>,
   canViewAllData |-> [deps |-> <<>>, value |-> FALSE],
   clientAccess   |-> [deps |-> <<>>, value |-> None],
   descriptor     |-> [deps |-> <<>>, value |-> [ref |-> 0]]]

PermissionsRendered(renders, identityChanged, recreated) ==
  [renders |-> renders, identityChanged |-> identityChanged, recreated |-> recreated]

PermissionsInit ==
  /\ user \in Users
  /\ dbSize = 0
  /\ hook = "permissions"
  /\ today = [y |-> 2025, m |-> 7, d |-> 15]
  /\ params = NoParams
  /\ view = MemoCells(user, PermissionsRef(user, 0), NoCells)
  /\ net = <<>>
  /\ last = PermissionsRendered(1, FALSE, FALSE)
  /\ flight = NoFlight
  /\ channels = NoChannels

\* a re-render of the component: useAuth may hold another identity, and
\* usePermissions may hand out a re-created object
RenderPermissions ==
  /\ hook = "permissions"
  /\ last.renders < MaxRenders
  /\ \E u \in Users, generation \in 0..1 :
       /\ user' = u
       /\ view' = MemoCells(u, PermissionsRef(u, generation), view)
       /\ last' = PermissionsRendered(last.renders + 1, u # user,
                                      PermissionsRef(u, generation) # view.permissions)
  /\ UNCHANGED <<dbSize, today, hook, params, net, flight, channels>>

PermissionsNext == RenderPermissions

PermissionsSpec == PermissionsInit /\ [][PermissionsNext]_vars

\* ------------------------------------------------------ useAuth, HomePage
\* user and view.loading are the state of one mounted useAuth; view.page is
\* the HomePage that uses it; flight lists the awaits that have not resumed;
\* channels.session is the session the auth backend holds; net lists the
\* backend calls of the latest authentication operation.
MaxPendingEvents == 2

UserIds  == {"u1", "u2"}
Sessions == {None} \cup {Some(id) : id \in UserIds}

\* the row of table profiles for a user id
Profile(id) ==
  IF id = "u1" THEN Some([role |-> "admin",  client_id |-> None])
               ELSE Some([role |-> "client", client_id |-> Some("c1")])

Pending(kind, id) == [kind |-> kind, id |-> id]

PendingEvents == Len(SelectSeq(flight, LAMBDA c : c.kind = "eventProfile"))

\* a redirection that does not remember that it has redirected
HomePageEffectRepeating(u, loading, page) ==
  IF ~loading
  THEN [isRedirecting |-> TRUE,
        pushes |-> Append(page.pushes, IF u # None THEN "/dashboard" ELSE "/login")]
  ELSE page

\* HomePage: the effect that runs after a render with (user, loading)
HomePageEffect(u, loading, page) ==
  IF ~loading /\ ~page.isRedirecting
  THEN [isRedirecting |-> TRUE,
        pushes |-> Append(page.pushes, IF u # None THEN "/dashboard" ELSE "/login")]
  ELSE page

\* setUser(u); setLoading(false), then the render of HomePage and its effect
AuthSettled(u, old) ==
  [loading |-> FALSE, page |-> HomePageEffect(u, FALSE, old.page)]

\* a profile error that leaves the profile in place
SessionProfileUserIgnoringError(outcome, id) == Profile(id)

\* getSession: if (error) setUser(null) else setUser(profile)
SessionProfileUser(outcome, id) ==
  IF outcome = "ok" THEN Profile(id) ELSE None

\* onAuthStateChange: setUser(profile), where profile is null on error
EventProfileUser(outcome, id) ==
  IF outcome = "ok" THEN Profile(id) ELSE None

AuthStep(op, outcome, thrown, error, pushed) ==
  [op |-> op, outcome |-> outcome, thrown |-> thrown, error |-> error, pushed |-> pushed]

AuthInit ==
  /\ user = None
  /\ dbSize = 0
  /\ hook = "auth"
  /\ today = [y |-> 2025, m |-> 7, d |-> 15]
  /\ params = NoParams
  /\ view = [loading |-> TRUE, page |-> [isRedirecting |-> FALSE, pushes |-> <<>>]]
  /\ net = <<>>
  /\ last = AuthStep("mount", "none", None, None, None)
  /\ flight = <<Pending("getSession", "")>>
  /\ channels \in {[session |-> ss, delivered |-> FALSE] : ss \in Sessions}

\* await supabase.auth.getSession() resumes
ResolveSession ==
  /\ hook = "auth"
  /\ \E k \in DOMAIN flight :
       /\ flight[k].kind = "getSession"
       /\ IF channels.session # None
          THEN /\ flight' = [flight EXCEPT ![k] = Pending("sessionProfile", channels.session[1])]
               /\ UNCHANGED <<user, view>>
          ELSE /\ flight' = RemoveAt(flight, k)
               /\ user' = None
               /\ view' = AuthSettled(None, view)
  /\ last' = AuthStep("getSession", "ok", None, None, None)
  /\ UNCHANGED <<dbSize, today, hook, params, net, channels>>

\* the profile query of getSession resumes
AnswerSessionProfile ==
  /\ hook = "auth"
  /\ \E k \in DOMAIN flight, outcome \in {"ok", "error"} :
       /\ flight[k].kind = "sessionProfile"
       /\ flight' = RemoveAt(flight, k)
       /\ user' = SessionProfileUser(outcome, flight[k].id)
       /\ view' = AuthSettled(SessionProfileUser(outcome, flight[k].id), view)
       /\ last' = AuthStep("sessionProfile", outcome, None, None, None)
  /\ UNCHANGED <<dbSize, today, hook, params, net, channels>>

\* the auth client delivers an event to the onAuthStateChange handler
AuthEvent ==
  /\ hook = "auth"
  /\ \E ss \in Sessions :
       /\ channels' = [session |-> ss, delivered |-> TRUE]
       /\ IF ss # None
          THEN /\ PendingEvents < MaxPendingEvents
               /\ flight' = Append(flight, Pending("eventProfile", ss[1]))
               /\ UNCHANGED <<user, view>>
          ELSE /\ user' = None
               /\ view' = AuthSettled(None, view)
               /\ UNCHANGED flight
       /\ last' = AuthStep("event", IF ss # None THEN "session" ELSE "signedOut",
                           None, None, None)
  /\ UNCHANGED <<dbSize, today, hook, params, net>>

\* the profile query of an onAuthStateChange handler resumes
AnswerEventProfile ==
  /\ hook = "auth"
  /\ \E k \in DOMAIN flight, outcome \in {"ok", "error"} :
       /\ flight[k].kind = "eventProfile"
       /\ flight' = RemoveAt(flight, k)
       /\ user' = EventProfileUser(outcome, flight[k].id)
       /\ view' = AuthSettled(EventProfileUser(outcome, flight[k].id), view)
       /\ last' = AuthStep("eventProfile", outcome, None, None, None)
  /\ UNCHANGED <<dbSize, today, hook, params, net, channels>>

AuthError(outcome) == IF outcome = "ok" THEN None ELSE Some("auth error")

SignIn ==
  /\ hook = "auth"
  /\ \E outcome \in {"ok", "error"} :
       /\ net' = <<"auth.signInWithPassword">>
       /\ last' = AuthStep("signIn", outcome, AuthError(outcome), None, None)
  /\ UNCHANGED <<user, dbSize, today, hook, params, view, flight, channels>>

\* auth error / no user yet / notification error / success
SignUp ==
  /\ hook = "auth"
  /\ \E outcome \in {"ok", "error", "unconfirmed", "notificationError"} :
       /\ net' = IF outcome \in {"error", "unconfirmed"}
                 THEN <<"auth.signUp">>
                 ELSE <<"auth.signUp", "notifications.insert">>
       /\ last' = AuthStep("signUp", outcome, None,
                           IF outcome = "ok" THEN None
                           ELSE IF outcome = "error" THEN Some("auth error")
                           ELSE IF outcome = "unconfirmed"
                                THEN Some("Veuillez confirmer votre email pour continuer.")
                           ELSE Some("notification error"),
                           None)
  /\ UNCHANGED <<user, dbSize, today, hook, params, view, flight, channels>>

\* a sign-out that leaves the page whatever the backend answered
SignOutPushAlways(error) == Some("/login")

\* signOut: if (!error) router.push('/login')
SignOutPush(error) == IF error = None THEN Some("/login") ELSE None

SignOut ==
  /\ hook = "auth"
  /\ \E outcome \in {"ok", "error"} :
       /\ net' = <<"auth.signOut">>
       /\ last' = AuthStep("signOut", outcome, None, AuthError(outcome),
                           SignOutPush(AuthError(outcome)))
  /\ UNCHANGED <<user, dbSize, today, hook, params, view, flight, channels>>

ResetPassword ==
  /\ hook = "auth"
  /\ \E outcome \in {"ok", "error"} :
       /\ net' = <<"auth.resetPasswordForEmail">>
       /\ last' = AuthStep("resetPassword", outcome, None, AuthError(outcome), None)
  /\ UNCHANGED <<user, dbSize, today, hook, params, view, flight, channels>>

AuthNext ==
  \/ ResolveSession
  \/ AnswerSessionProfile
  \/ AuthEvent
  \/ AnswerEventProfile
  \/ SignIn
  \/ SignUp
  \/ SignOut
  \/ ResetPassword

AuthSpec == AuthInit /\ [][AuthNext]_vars

\* every await of the mount effect resumes at some time
AuthLiveSpec ==
  /\ AuthInit
  /\ [][AuthNext]_vars
  /\ WF_vars(ResolveSession)
  /\ WF_vars(AnswerSessionProfile)

\* ------------------------------------------------------------ useDebounce
\* view holds one mounted useDebounce: its arguments, its state, the timers
\* set and not yet fired or cleared (remaining counts the time left, current
\* marks the timer of the latest effect run) and the time for which the
\* arguments have stayed the same, counted up to MaxDelay.
MaxDelay == 2

DebounceValues == {"", "a", "ab", "abc"}
Delays         == 0..MaxDelay

Timer(value, delay) == [value |-> value, remaining |-> delay, current |-> TRUE]

\* an effect whose cleanup leaves the timer running
ClearTimeoutMissing(timers) ==
  {[t EXCEPT !.current = FALSE] : t \in timers}

\* the effect's cleanup: clearTimeout(handler)
ClearTimeout(timers) == {t \in timers : ~t.current}

\* time passes for a timer
Elapse(t) == [t EXCEPT !.remaining = IF @ > 0 THEN @ - 1 ELSE 0]

Debounced(op) == [op |-> op]

DebounceInit ==
  /\ user = None
  /\ dbSize = 0
  /\ hook = "debounce"
  /\ today = [y |-> 2025, m |-> 7, d |-> 15]
  /\ params = NoParams
  /\ \E v \in DebounceValues, d \in Delays :
       view = [value |-> v, delay |-> d, debouncedValue |-> v,
               timers |-> {Timer(v, d)}, stableFor |-> 0]
  /\ net = <<>>
  /\ last = Debounced("mount")
  /\ flight = NoFlight
  /\ channels = NoChannels

\* a render with another value or delay: cleanup, then the effect again
DebounceInput ==
  /\ hook = "debounce"
  /\ \E v \in DebounceValues, d \in Delays :
       /\ <<v, d>> # <<view.value, view.delay>>
       /\ view' = [view EXCEPT !.value = v, !.delay = d,
                               !.timers = ClearTimeout(view.timers) \cup {Timer(v, d)},
                               !.stableFor = 0]
  /\ last' = Debounced("input")
  /\ UNCHANGED <<user, dbSize, today, hook, params, net, flight, channels>>

\* one unit of time passes
DebounceTick ==
  /\ hook = "debounce"
  /\ view' = [view EXCEPT !.timers = {Elapse(t) : t \in view.timers},
                          !.stableFor = IF @ < MaxDelay THEN @ + 1 ELSE @]
  /\ last' = Debounced("tick")
  /\ UNCHANGED <<user, dbSize, today, hook, params, net, flight, channels>>

\* a timer that is due runs its callback: setDebouncedValue(value)
DebounceFire ==
  /\ hook = "debounce"
  /\ \E t \in view.timers :
       /\ t.remaining = 0
       /\ view' = [view EXCEPT !.debouncedValue = t.value,
                               !.timers = view.timers \ {t}]
  /\ last' = Debounced("fire")
  /\ UNCHANGED <<user, dbSize, today, hook, params, net, flight, channels>>

DebounceNext ==
  \/ DebounceInput
  \/ DebounceTick
  \/ DebounceFire

\* time passes and due timers fire
DebounceSpec ==
  /\ DebounceInit
  /\ [][DebounceNext]_vars
  /\ WF_vars(DebounceTick)
  /\ WF_vars(DebounceFire)

\* ---------------------------------------------------------- usePagination
\* view holds one mounted usePagination: its arguments and its state.
MaxPageNumber == 4

PageNumbers == 1..MaxPageNumber
Limits      == {5, 10, 20}

Paginated(op, arg, before) == [op |-> op, arg |-> arg, before |-> before]

\* a step back that does not stop at the first page
PreviousPageUnbounded(page) == page - 1

\* goToPreviousPage: setPage(prev => Math.max(1, prev - 1))
PreviousPage(page) == Max(1, page - 1)

PaginationInit ==
  /\ user = None
  /\ dbSize = 0
  /\ hook = "pagination"
  /\ today = [y |-> 2025, m |-> 7, d |-> 15]
  /\ params = NoParams
  /\ \E p \in PageNumbers, l \in Limits :
       view = [initialPage |-> p, initialLimit |-> l, page |-> p, limit |-> l]
  /\ net = <<>>
  /\ last = Paginated("mount", 0, 0)
  /\ flight = NoFlight
  /\ channels = NoChannels

goToPage ==
  /\ hook = "pagination"
  /\ \E newPage \in PageNumbers :
       /\ view' = [view EXCEPT !.page = newPage]
       /\ last' = Paginated("goToPage", newPage, view.page)
  /\ UNCHANGED <<user, dbSize, today, hook, params, net, flight, channels>>

goToNextPage ==
  /\ hook = "pagination"
  /\ view.page < MaxPageNumber
  /\ view' = [view EXCEPT !.page = @ + 1]
  /\ last' = Paginated("goToNextPage", 0, view.page)
  /\ UNCHANGED <<user, dbSize, today, hook, params, net, flight, channels>>

goToPreviousPage ==
  /\ hook = "pagination"
  /\ view' = [view EXCEPT !.page = PreviousPage(@)]
  /\ last' = Paginated("goToPreviousPage", 0, view.page)
  /\ UNCHANGED <<user, dbSize, today, hook, params, net, flight, channels>>

changeLimit ==
  /\ hook = "pagination"
  /\ \E newLimit \in Limits :
       /\ view' = [view EXCEPT !.limit = newLimit, !.page = 1]
       /\ last' = Paginated("changeLimit", newLimit, view.page)
  /\ UNCHANGED <<user, dbSize, today, hook, params, net, flight, channels>>

reset ==
  /\ hook = "pagination"
  /\ view' = [view EXCEPT !.page = view.initialPage, !.limit = view.initialLimit]
  /\ last' = Paginated("reset", 0, view.page)
  /\ UNCHANGED <<user, dbSize, today, hook, params, net, flight, channels>>

PaginationNext ==
  \/ goToPage
  \/ goToNextPage
  \/ goToPreviousPage
  \/ changeLimit
  \/ reset

PaginationSpec == PaginationInit /\ [][PaginationNext]_vars

\* ====================================================================
\* Properties
\* ====================================================================
ListHooks == {"licenses", "equipment", "clients"}

\* the column that holds the owner of a row of a table
OwnerColumn(table) == IF table = "clients" THEN "id" ELSE "client_id"

\* the rows the list hook hands to its caller
ReturnedRows ==
  CASE hook \in {"licenses", "equipment"} -> view.items
    [] hook = "clients" /\ view.data # None /\ view.data[1].data # None -> view.data[1].data[1]
    [] OTHER -> <<>>

\* the latest run issued its request(s) and the backend answered all of them
RanOk == last.outcome = "ok"

\* query q carries the equality constraint on the owner key of its table
HasOwnerConstraint(q, perm) ==
  \E k \in DOMAIN q.filters :
     /\ q.filters[k].op = "eq"
     /\ q.filters[k].col = OwnerColumn(q.table)
     /\ Some(q.filters[k].val) = perm.clientAccess

\* C1: under a non-privileged scope, with clientAccess defined or not, a list
\* operation never returns a record whose owner key differs from clientAccess.
C1_ListReturnsOnlyOwnRecords ==
  (hook \in ListHooks /\ RanOk /\ ~last.perm.canViewAllData)
    => \A k \in DOMAIN ReturnedRows :
          ReturnedRows[k][OwnerColumn(net[1].table)] = last.perm.clientAccess

\* C2: every remote query issued under a non-privileged scope carries the
\* owner equality constraint; none is issued unfiltered.
C2_EveryRestrictedQueryIsOwnerFiltered ==
  ~last.perm.canViewAllData
    => \A k \in DOMAIN net : HasOwnerConstraint(net[k], last.perm)

\* C3: while the identity is unauthenticated, no scoped query hook issues a
\* remote request and each returns no data.
C3_UnauthenticatedIssuesNothing ==
  user = None => (net = <<>> /\ view.items = <<>> /\ view.data = None)

\* the latest run issued its request, answered or not
RanList == hook \in ListHooks /\ last.outcome \in Outcomes

RestrictedWithClient == ~last.perm.canViewAllData /\ last.perm.clientAccess # None

OwnerConstraint ==
  [op |-> "eq", col |-> OwnerColumn(net[1].table), val |-> last.perm.clientAccess[1]]

ForeignClientId ==
  /\ hook \in {"licenses", "equipment"}
  /\ last.params.clientId # None
  /\ last.params.clientId # last.perm.clientAccess

\* C4: under a restricted scope with a defined clientAccess the owner
\* constraint is in every list query, ahead of the caller's filters; no
\* parameter of the caller removes or widens it (every returned row is the
\* client's own), and a clientId other than clientAccess yields no row.
C4_OwnerConstraintAlwaysFirst ==
  (RanList /\ RestrictedWithClient)
    => /\ net # <<>>
       /\ net[1].filters # <<>>
       /\ net[1].filters[1] = OwnerConstraint
       /\ RanOk => \A k \in DOMAIN ReturnedRows :
                     ReturnedRows[k][OwnerColumn(net[1].table)] = last.perm.clientAccess
       /\ (RanOk /\ ForeignClientId)
            => (view.items = <<>> /\ view.pagination.count = 0)

\* a user of c1 asked for the licenses of c2, which exist, and got none
C4_Witness ==
  /\ hook = "licenses" /\ RanOk /\ RestrictedWithClient /\ ForeignClientId
  /\ \E i \in 1..dbSize : LicenseRow(i).client_id = last.params.clientId
  /\ view.items = <<>>

\* C5: after a successful list fetch totalPages is
\* max(1, ceil(totalCount / limit)): 1, not 0, when the count is 0.
C5_TotalPagesAtLeastOne ==
  (hook \in {"licenses", "equipment"} /\ RanOk)
    => view.pagination.totalPages =
         Max(1, CeilDiv(view.pagination.count,
                        IF last.params.limit = None THEN 10 ELSE last.params.limit[1]))

\* the page and the page size of the latest list request, defaults applied
AskedPage  == IF last.params.page = None THEN 1 ELSE last.params.page[1]
AskedLimit == IF last.params.limit = None THEN 10 ELSE last.params.limit[1]

\* the rows that match the filters of the latest list request
MatchingCount == Len(Matching(net[1], dbSize))

\* the number of rows of the requested page
PageSize == Min(AskedLimit, Max(0, MatchingCount - (AskedPage - 1) * AskedLimit))

ReportedCount ==
  IF hook = "clients" THEN view.data[1].count ELSE view.pagination.count

\* the rows of the requested page, as the backend holds them
PageRows ==
  Slice(Ordered(net[1], Matching(net[1], dbSize)),
        (AskedPage - 1) * AskedLimit, (AskedPage - 1) * AskedLimit + AskedLimit - 1)

NullIdsInPage == Len(SelectSeq(PageRows, LAMBDA r : r.id = None))

\* C6 (as stated): page p of size L over N matching rows requests the range
\* [(p-1)L, (p-1)L + L - 1], returns min(L, max(0, N - (p-1)L)) items and
\* reports N; a missing page is 1 and a missing limit is 10.
C6_PageHoldsAllRowsOfRange ==
  (hook \in ListHooks /\ RanOk)
    => /\ net[1].range = Some([from |-> (AskedPage - 1) * AskedLimit,
                               to   |-> (AskedPage - 1) * AskedLimit + AskedLimit - 1])
       /\ Len(ReturnedRows) = PageSize
       /\ ReportedCount = MatchingCount

\* C6 (amended): the range and the reported count are as stated; useLicenses
\* and useEquipment return the rows of that range whose id is not null, so
\* min(L, max(0, N - (p-1)L)) items less the rows of the range without an id;
\* fetchClients returns every row of the range.
C6_PageHoldsRowsOfRangeWithId ==
  (hook \in ListHooks /\ RanOk)
    => /\ net[1].range = Some([from |-> (AskedPage - 1) * AskedLimit,
                               to   |-> (AskedPage - 1) * AskedLimit + AskedLimit - 1])
       /\ Len(ReturnedRows) =
            PageSize - (IF hook = "clients" THEN 0 ELSE NullIdsInPage)
       /\ ReportedCount = MatchingCount

\* a page of two licenses of which one has no id: one item, count 3
C6_Witness ==
  /\ hook = "licenses" /\ RanOk
  /\ last.params.limit = Some(2)
  /\ MatchingCount = 3
  /\ NullIdsInPage = 1
  /\ Len(view.items) = 1
  /\ view.pagination.count = 3

UnrecognizedStatus ==
  /\ last.params.status # None
  /\ last.params.status[1] \notin
       (IF hook = "licenses" THEN validLicenseStatuses ELSE validEquipmentStatuses)

UnrecognizedType ==
  /\ hook = "equipment"
  /\ last.params.type # None
  /\ last.params.type[1] \notin validEquipmentTypes

\* the latest parameters with the unrecognized values taken out
Cleared ==
  [last.params EXCEPT !.status = IF UnrecognizedStatus THEN None ELSE @,
                      !.type   = IF UnrecognizedType THEN None ELSE @]

\* C7: a value outside the recognized set, as the status filter of licenses
\* or the type or status filter of equipment, has the effect of no value: the
\* same request, the same result, and no error.
C7_UnrecognizedValueIsNoValue ==
  (hook \in {"licenses", "equipment"} /\ RanOk /\ (UnrecognizedStatus \/ UnrecognizedType))
    => /\ view.error = None
       /\ hook = "licenses"
            => /\ net = <<LicensesQuery(last.perm, Cleared)>>
               /\ view = FetchLicenses(Cleared,
                            Execute(LicensesQuery(last.perm, Cleared), dbSize), InitialView)
       /\ hook = "equipment"
            => /\ net = <<EquipmentQuery(last.perm, Cleared)>>
               /\ view = FetchEquipment(Cleared,
                            Execute(EquipmentQuery(last.perm, Cleared), dbSize), InitialView)

\* licenses asked with a status that is not one of theirs, and rows returned
C7_Witness ==
  /\ hook = "licenses" /\ RanOk /\ UnrecognizedStatus
  /\ \E k \in DOMAIN view.items : view.items[k].status # last.params.status

\* the values a caller may try as an enumerated filter
EnumUniverse ==
  {"active", "expired", "about_to_expire", "cancelled",
   "pc", "server", "router", "switch", "printer", "other",
   "in_maintenance", "obsolete", "soon_obsolete", "retired",
   "serveur", "routeur", "imprimante", "autre",
   "actif", "en_maintenance", "bientot_obsolete", "retire", "unknown"}

BareQuery == From("t", {"*"}, TRUE, FALSE)

\* the values that each list filter turns into a constraint of the request
RecognizedLicenseStatuses ==
  {v \in EnumUniverse :
     LicensesStatusFilter(BareQuery, [NoParams EXCEPT !.status = Some(v)]) # BareQuery}
RecognizedEquipmentTypes ==
  {v \in EnumUniverse :
     EquipmentTypeFilter(BareQuery, [NoParams EXCEPT !.type = Some(v)]) # BareQuery}
RecognizedEquipmentStatuses ==
  {v \in EnumUniverse :
     EquipmentStatusFilter(BareQuery, [NoParams EXCEPT !.status = Some(v)]) # BareQuery}

\* every returned row has the value asked for in column col
RestrictedTo(col) ==
  \A k \in DOMAIN view.items : view.items[k][col] = last.params[col]

\* a filter on a recognized value leaves only rows with that value
RecognizedValueRestricts(statuses, types) ==
  /\ (hook \in {"licenses", "equipment"} /\ RanOk
        /\ last.params.status # None /\ last.params.status[1] \in statuses)
       => RestrictedTo("status")
  /\ (hook = "equipment" /\ RanOk
        /\ last.params.type # None /\ last.params.type[1] \in types)
       => RestrictedTo("type")

InScope(row) == last.perm.canViewAllData \/ row.client_id = last.perm.clientAccess

\* the equipment in the scope of the dashboard that has status s
EquipmentWithStatus(s) ==
  Cardinality({i \in 1..dbSize :
                 InScope(EquipmentRow(i)) /\ EquipmentRow(i).status = Some(s)})

DashboardCounts(s) ==
  (hook = "dashboard" /\ RanOk /\ view.data # None)
    => view.data[1].stats.soon_obsolete_equipment = EquipmentWithStatus(s)

\* C8 (as stated): the recognized values are the English enumerations, a
\* filter on a recognized value restricts the result to the rows with that
\* value, and the dashboard's soon-obsolete count counts status soon_obsolete.
C8_RecognizedAreEnglishEnums ==
  /\ RecognizedLicenseStatuses = {"active", "expired", "about_to_expire", "cancelled"}
  /\ RecognizedEquipmentTypes = {"pc", "server", "router", "switch", "printer", "other"}
  /\ RecognizedEquipmentStatuses =
       {"active", "in_maintenance", "obsolete", "soon_obsolete", "retired"}
  /\ RecognizedValueRestricts(
       IF hook = "licenses" THEN {"active", "expired", "about_to_expire", "cancelled"}
       ELSE {"active", "in_maintenance", "obsolete", "soon_obsolete", "retired"},
       {"pc", "server", "router", "switch", "printer", "other"})
  /\ DashboardCounts("soon_obsolete")

\* C8 (amended): the license statuses are as stated; the recognized equipment
\* types are pc, serveur, routeur, switch, imprimante, autre and the
\* recognized equipment statuses actif, en_maintenance, obsolete,
\* bientot_obsolete, retire; a filter on a recognized value restricts the
\* result to the rows with that value, and the dashboard's soon-obsolete
\* count counts status bientot_obsolete.
C8_RecognizedAreCodeEnums ==
  /\ RecognizedLicenseStatuses = {"active", "expired", "about_to_expire", "cancelled"}
  /\ RecognizedEquipmentTypes = {"pc", "serveur", "routeur", "switch", "imprimante", "autre"}
  /\ RecognizedEquipmentStatuses =
       {"actif", "en_maintenance", "obsolete", "bientot_obsolete", "retire"}
  /\ RecognizedValueRestricts(
       IF hook = "licenses" THEN {"active", "expired", "about_to_expire", "cancelled"}
       ELSE {"actif", "en_maintenance", "obsolete", "bientot_obsolete", "retire"},
       {"pc", "serveur", "routeur", "switch", "imprimante", "autre"})
  /\ DashboardCounts("bientot_obsolete")

\* equipment asked by type serveur while other types exist: only servers back
C8_Witness ==
  /\ hook = "equipment" /\ RanOk
  /\ last.params.type = Some("serveur")
  /\ view.items # <<>> /\ RestrictedTo("type")
  /\ \E i \in 1..dbSize : InScope(EquipmentRow(i)) /\ EquipmentRow(i).type = Some("pc")

StatsHooks == {"licenseStats", "equipmentStats"}

\* the rows the aggregation's request selects
ScopedRows == Matching(net[1], dbSize)

\* a row the aggregation counts
IsValidRow(r) ==
  IF hook = "licenseStats"
    THEN r.status # None /\ r.status # Some("") /\ r.expiry_date # None
    ELSE r.type # None /\ r.type # Some("") /\ r.status # None /\ r.status # Some("")

ValidCount == Len(SelectSeq(ScopedRows, IsValidRow))

\* C9: when the scoped row set is empty or holds no valid row, the license and
\* equipment aggregations return a structure, not null, with total 0, no
\* category counts and no percentage entries, and raise no error.
C9_EmptyAggregateIsZero ==
  (hook \in StatsHooks /\ RanOk /\ ValidCount = 0)
    => /\ view.error = None
       /\ view.data # None
       /\ view.data[1].total = 0
       /\ DOMAIN view.data[1].byStatus = {}
       /\ view.data[1].chartData.statuses = <<>>
       /\ hook = "equipmentStats"
            => /\ DOMAIN view.data[1].byType = {}
               /\ view.data[1].chartData.types = <<>>

\* licenses in scope, none of them valid, aggregated
C9_Witness ==
  /\ hook = "licenseStats" /\ RanOk
  /\ ScopedRows # <<>> /\ ValidCount = 0
  /\ view.data # None /\ view.data[1].total = 0

RECURSIVE SumOver(_, _)
SumOver(f, S) ==
  IF S = {} THEN 0
  ELSE LET x == CHOOSE y \in S : TRUE IN f[x] + SumOver(f, S \ {x})

SumOfCounts(f) == SumOver(f, DOMAIN f)

CountsSumToTotal ==
  /\ SumOfCounts(view.data[1].byStatus) = view.data[1].total
  /\ hook = "equipmentStats" => SumOfCounts(view.data[1].byType) = view.data[1].total

\* C10 (as stated): over a non-empty scoped row set the per-category counts
\* sum to the total, and the total is the number of rows in scope.
C10_TotalIsRowsInScope ==
  (hook \in StatsHooks /\ RanOk /\ ScopedRows # <<>>)
    => (CountsSumToTotal /\ view.data[1].total = Len(ScopedRows))

\* C10 (amended): over a non-empty scoped row set the per-category counts sum
\* to the total, and the total is the number of valid rows in scope: those
\* with a status and an expiry date (licenses), a type and a status (equipment).
C10_TotalIsValidRowsInScope ==
  (hook \in StatsHooks /\ RanOk /\ ScopedRows # <<>>)
    => (CountsSumToTotal /\ view.data[1].total = ValidCount)

\* equipment of which one row is valid and another is not, aggregated
C10_Witness ==
  /\ hook = "equipmentStats" /\ RanOk
  /\ ValidCount > 0 /\ ValidCount < Len(ScopedRows)
  /\ view.data[1].total = ValidCount

\* the calendar month k - 1 months after the current one
CalendarMonth(k) ==
  [ month |-> ((today.m - 1 + (k - 1)) % 12) + 1,
    year  |-> today.y + ((today.m - 1 + (k - 1)) \div 12) ]

\* C11: for every row set, the empty one included, and every current date,
\* the 29th to 31st included, monthlyExpiry has exactly 6 entries: the current
\* month and the 5 calendar months after it, in order, none repeated or
\* skipped, each with a count >= 0.
C11_SixConsecutiveMonths ==
  (hook = "licenseStats" /\ RanOk /\ view.data # None)
    => /\ Len(view.data[1].monthlyExpiry) = 6
       /\ \A k \in DOMAIN view.data[1].monthlyExpiry :
            /\ view.data[1].monthlyExpiry[k].month = CalendarMonth(k)
            /\ view.data[1].monthlyExpiry[k].count >= 0

\* C12 (as stated): no item of a page returned by a list of clients, licenses
\* or equipment has a null primary key.
C12_NoNullIdReturned ==
  (hook \in ListHooks /\ RanOk)
    => \A k \in DOMAIN ReturnedRows : ReturnedRows[k].id # None

\* C12 (amended): useLicenses and useEquipment drop the rows whose id is null
\* before they expose the page, so none of their items has a null id;
\* fetchClients has no such filter and returns the rows as the backend sent
\* them.
C12_NullIdsDroppedByLicensesAndEquipment ==
  (hook \in ListHooks /\ RanOk)
    => IF hook = "clients"
         THEN ReturnedRows = PageRows
         ELSE /\ \A k \in DOMAIN view.items : view.items[k].id # None
              /\ view.items = SelectSeq(PageRows, LAMBDA r : r.id # None)

\* a page of equipment that held a row without an id, returned without it
C12_Witness ==
  /\ hook = "equipment" /\ RanOk
  /\ NullIdsInPage > 0
  /\ view.items # <<>>
  /\ \A k \in DOMAIN view.items : view.items[k].id # None

\* the latest run of a list hook issued its request and the backend refused it
ListFailed == hook \in ListHooks /\ last.outcome \in {"fail", "failPlain"}

\* C13: when the remote list query fails, the error surfaced carries the
\* backend's message, and the invocation issued exactly one request: the list
\* functions do not retry (useClients' query function is invoked again by the
\* cache's retry policy, one request per invocation).
C13_FailureSurfacesBackendMessage ==
  ListFailed
    => /\ view.error = Some(<<"backend down">>)
       /\ Len(net) = (IF hook = "clients" THEN 1 + QueryRetry ELSE 1)
       /\ \A k \in DOMAIN net : net[k] = net[1]

\* the dashboard's latest run started its requests
DashboardRan == hook = "dashboard" /\ last.outcome \in {"ok", "fail"}

\* the scope lets the dashboard compute statistics
DashboardScope == last.perm.canViewAllData \/ last.perm.clientAccess # None

\* the requests of the dashboard under the latest scope
DashboardBranches ==
  IF last.perm.canViewAllData
    THEN {"alerts", "clients", "licenses", "equipment"}
    ELSE {"alerts", "licenses", "equipment"}

FailedBranches == {b \in DashboardBranches : last.outs[b] # "ok"}

\* the rows of a statistics branch: those in scope, or none if it failed
LicensesOfBranch ==
  IF last.outs.licenses # "ok" THEN {}
  ELSE {i \in 1..dbSize : InScope(LicenseRow(i))}
EquipmentOfBranch ==
  IF last.outs.equipment # "ok" THEN {}
  ELSE {i \in 1..dbSize : InScope(EquipmentRow(i))}

\* the statistics a dashboard with degraded branches shows
DegradedStats ==
  [ total_clients   |-> IF ~last.perm.canViewAllData THEN 1
                        ELSE IF last.outs.clients # "ok" THEN 0 ELSE dbSize,
    total_licenses  |-> Cardinality(LicensesOfBranch),
    total_equipment |-> Cardinality(EquipmentOfBranch),
    expired_licenses |->
      Cardinality({i \in LicensesOfBranch : LicenseRow(i).status = Some("expired")}),
    about_to_expire_licenses |->
      Cardinality({i \in LicensesOfBranch : LicenseRow(i).status = Some("about_to_expire")}),
    obsolete_equipment |->
      Cardinality({i \in EquipmentOfBranch : EquipmentRow(i).status = Some("obsolete")}),
    soon_obsolete_equipment |->
      Cardinality({i \in EquipmentOfBranch : EquipmentRow(i).status = Some("bientot_obsolete")}) ]

\* the alerts the backend holds for the scope, or none if their request failed
AlertsOfBranch ==
  IF last.outs.alerts # "ok" THEN <<>>
  ELSE ValidAlerts(BranchRows(Execute(AlertsQuery(last.perm), dbSize)))

\* C14 (as stated): when one of the dashboard's requests fails, the dashboard
\* still returns a result: the failing branch contributes an empty or zero
\* value, the others their real values, and no error is raised.
C14_NoBranchFailsTheDashboard ==
  (DashboardRan /\ DashboardScope /\ Cardinality(FailedBranches) = 1)
    => /\ view.error = None
       /\ view.data = Some([stats |-> DegradedStats, alerts |-> AlertsOfBranch])

\* C14 (amended): a failing statistics request (clients count, licenses,
\* equipment) contributes a zero or empty value while the other branches
\* contribute their real values; a failing alerts request fails the whole
\* dashboard with "Erreur alertes: " and the backend's message, and the
\* statistics requests are not issued.
C14_OnlyStatisticsBranchesDegrade ==
  (DashboardRan /\ DashboardScope)
    => IF last.outs.alerts = "ok"
         THEN /\ view.error = None
              /\ view.data = Some([stats |-> DegradedStats, alerts |-> AlertsOfBranch])
         ELSE /\ view.error = Some(<<"Erreur alertes: ", "backend down">>)
              /\ \A k \in DOMAIN net : net[k] = AlertsQuery(last.perm)

\* the licenses request failed alone: no license counted, the equipment counted
C14_Witness ==
  /\ DashboardRan /\ last.perm.canViewAllData
  /\ FailedBranches = {"licenses"}
  /\ dbSize > 0
  /\ view.data # None
  /\ view.data[1].stats.total_licenses = 0
  /\ view.data[1].stats.total_equipment = dbSize

\* C15: a result cached under a privileged identity is never served to a
\* restricted identity: once the identity is restricted, the data shown has
\* been fetched anew under the new scope, or there is none.
C15_PrivilegedResultNeverServedToRestricted ==
  [][ ( /\ RanOk /\ last.perm.canViewAllData
        /\ view.data # None
        /\ ~CanViewAllData(user') )
        => (last'.outcome = "ok" \/ view'.data = None) ]_vars

PermissionActions   == {"create", "read", "update", "delete"}
PermissionResources == {"clients", "licenses", "equipment", "reports"}

\* C20: for an unauthenticated identity the stable permission descriptor has
\* canViewAllData false and clientAccess undefined, can(action, resource) is
\* false for every action and resource, and canManageClients,
\* canManageLicenses, canManageEquipment and canViewReports are all false; a
\* hook that runs for that identity runs under this descriptor.
C20_UnauthenticatedHasNoPermission ==
  user = None
    => /\ StablePermissions(user) =
            [ canViewAllData     |-> FALSE,
              clientAccess       |-> None,
              canManageClients   |-> FALSE,
              canManageLicenses  |-> FALSE,
              canManageEquipment |-> FALSE,
              canViewReports     |-> FALSE ]
       /\ \A a \in PermissionActions, r \in PermissionResources : ~Can(user, a, r)
       /\ last.outcome # "none" => last.perm = StablePermissions(user)
       /\ last.outcome # "none" => ~last.perm.canViewAllData /\ last.perm.clientAccess = None

\* the dashboard ran for nobody, under a descriptor that grants nothing, and
\* refused to compute statistics
C20_Witness ==
  /\ user = None
  /\ last.outcome = "ok"
  /\ ~last.perm.canManageClients /\ ~last.perm.canViewReports
  /\ hook = "dashboard" /\ view.error # None

\* C16 (as stated): for every hook, an error is surfaced only after the first
\* attempt and 3 retries have failed, and a run that succeeds surfaces its data
\* with no error.
C16_ErrorOnlyAfterThreeRetries ==
  /\ (view.error # None /\ last.outcome = "fail") => last.attempts = 1 + 3
  /\ (last.outcome = "ok" /\ ~last.failed /\ flight = NoFlight) => view.error = None

\* in the hooks built on the query cache a settled fetch has failed 1 + 3
\* times or succeeded; while it retries, the fetch is still going on
CachedQueryRetries ==
  hook \in AsyncQueryHooks
    => /\ last.outcome = "fail" => last.attempts = 1 + 3
       /\ (last.outcome = "fail" /\ flight = NoFlight) => view.error # None
       /\ last.outcome = "retry" => (last.attempts <= 3 /\ flight # NoFlight)
       /\ (last.outcome = "ok" /\ flight = NoFlight)
            => (view.error = None /\ view.data # None)

\* in those hooks an error appears only in the step of the fourth failure
CachedQueryErrorIsLate ==
  (hook \in AsyncQueryHooks /\ view'.error # None /\ view'.error # view.error)
    => (last'.outcome = "fail" /\ last'.attempts = 1 + 3 /\ Len(net') >= 1 + 3)

\* in useLicenses and useEquipment the first failure is surfaced at once and
\* no request follows it
ListErrorIsImmediate ==
  (hook \in AsyncListHooks /\ Len(flight') < Len(flight) /\ last'.outcome = "fail")
    => (view'.error # None /\ net' = net /\ last'.attempts = 1)

\* C16 (amended): useDashboard, useLicenseStats and useEquipmentStats retry a
\* failing query function up to 3 times, surface the error only when the first
\* attempt and the 3 retries have all failed, and surface the data with no
\* error when an attempt succeeds; useLicenses and useEquipment do not retry:
\* they surface the error of their single request at once.
C16_RetryOnlyInCachedQueries ==
  /\ []CachedQueryRetries
  /\ [][CachedQueryErrorIsLate]_vars
  /\ [][ListErrorIsImmediate]_vars

\* the dashboard's query function failed twice and succeeded the third time
C16_Witness ==
  /\ hook = "dashboard"
  /\ last.outcome = "ok" /\ last.attempts = 3
  /\ flight = NoFlight
  /\ view.error = None /\ view.data # None

SameKey == ScopeKey(StablePermissions(user')) = ScopeKey(StablePermissions(user))

\* C17: when the cache holds a result for the key and a refresh runs, the hook
\* keeps returning that result with loading = false until the refresh ends,
\* and replaces it only when the refresh succeeds.
C17_StaleDataServedWhileRefreshing ==
  [][ (hook \in AsyncQueryHooks /\ view.data # None /\ SameKey)
        => /\ view'.loading = FALSE
           /\ view'.data # None
           /\ view'.data # view.data => (last'.outcome = "ok" /\ flight' = NoFlight) ]_vars

\* the dashboard shows its cached result while a refresh is at its second retry
C17_Witness ==
  /\ hook = "dashboard"
  /\ flight # NoFlight /\ flight[1].failures = 2
  /\ view.data # None /\ view.loading = FALSE

\* the page the newest request of a list hook would show
NewestItems ==
  DropNullIds(Execute(ListQuery(hook, StablePermissions(user), params), dbSize).data[1])

\* C18: when a newer request of a list hook started while an older one was in
\* flight and both have been answered, in any order, the items and the page
\* displayed are those of the newest request.
C18_NewestRequestWins ==
  (hook \in AsyncListHooks /\ flight = NoFlight /\ last.outcome = "ok" /\ ~last.failed)
    => /\ view.items = NewestItems
       /\ view.pagination.page = (IF params.page = None THEN 1 ELSE params.page[1])

\* C19: a mounted useRealtimeSubscription instance has exactly one active
\* channel subscription, the one for its current table and callback, through
\* every mount, table change, callback change and unmount; an instance that
\* is not mounted has none.
C19_OneSubscriptionPerMountedInstance ==
  hook = "realtime"
    => \A i \in Instances :
         /\ Len(ActiveOf(i)) <= 1
         /\ channels.mounts[i] = None => ActiveOf(i) = <<>>
         /\ channels.mounts[i] # None
              => ActiveOf(i) = <<Channel(i, channels.mounts[i][1].table,
                                            channels.mounts[i][1].callback)>>

\* an instance re-rendered with a recreated callback next to another instance
\* subscribed to the same table, while a third instance is not mounted
C19_Witness ==
  /\ hook = "realtime"
  /\ last.op = "callback" /\ last.before = 1
  /\ ActiveOf(last.instance)[1].callback = "onChangeRecreated"
  /\ \E j \in Instances \ {last.instance} :
       /\ channels.mounts[j] # None
       /\ channels.mounts[j][1].table = channels.mounts[last.instance][1].table
  /\ \E j \in Instances : channels.mounts[j] = None
  /\ Len(channels.active) = 2

\* the descriptor useStablePermissions returns
ReturnedDescriptor == view.descriptor.value

\* the re-render kept the identity
SameIdentityKeepsDescriptor ==
  (hook = "permissions" /\ user' = user) => view'.descriptor = view.descriptor

\* the descriptor is replaced only when one of its three inputs changed
DescriptorChangesWithInputs ==
  (hook = "permissions" /\ view'.descriptor.value # view.descriptor.value)
    => \/ CanViewAllData(user') # CanViewAllData(user)
       \/ ClientAccess(user') # ClientAccess(user)
       \/ CanRef(user') # CanRef(user)

\* the descriptor's fields are those of the current identity
DescriptorIsCurrent ==
  hook = "permissions"
    => /\ ReturnedDescriptor.value = StablePermissions(user)
       /\ ReturnedDescriptor.can = CanRef(user)

AuthOperations == {"signIn", "signUp", "signOut", "resetPassword"}

AuthApiCalls ==
  {"auth.signInWithPassword", "auth.signUp", "auth.signOut", "auth.resetPasswordForEmail"}

AuthOperationFailed ==
  /\ hook = "auth"
  /\ last.op \in AuthOperations
  /\ last.outcome \in {"error", "notificationError"}

\* C22: a failure of signIn, signUp, signOut or resetPassword reaches the
\* caller, thrown by signIn and in the error field of the others, after
\* exactly one call of the auth API; signOut navigates to /login exactly when
\* the backend reported no error.
C22_AuthFailurePropagatedOnce ==
  /\ AuthOperationFailed
       => /\ IF last.op = "signIn" THEN last.thrown # None ELSE last.error # None
          /\ Len(SelectSeq(net, LAMBDA c : c \in AuthApiCalls)) = 1
  /\ (hook = "auth" /\ last.op \in AuthOperations)
       => Len(SelectSeq(net, LAMBDA c : c \in AuthApiCalls)) = 1
  /\ (hook = "auth" /\ last.op = "signOut")
       => (last.pushed = Some("/login") <=> last.outcome = "ok")
  /\ (hook = "auth" /\ last.op \in AuthOperations \ {"signOut"})
       => last.pushed = None

\* a sign-out the backend refused: the error is returned and the page stays
C22_Witness ==
  /\ AuthOperationFailed
  /\ last.op = "signOut"
  /\ last.error # None /\ last.pushed = None
  /\ net = <<"auth.signOut">>

\* C23: when the latest auth event delivered is a sign-out and every pending
\* callback has completed, user is null (isAuthenticated is false).
C23_SignedOutStaysSignedOut ==
  (hook = "auth" /\ channels.delivered /\ channels.session = None /\ flight = <<>>)
    => user = None

\* loading becomes false in a step of the getSession chain
LoadingEndsThroughGetSession ==
  /\ hook = "auth"
  /\ view.loading /\ ~view'.loading
  /\ last'.op \in {"getSession", "sessionProfile"}

\* the user that step leaves: the profile of the session's user when its
\* fetch succeeded, null when there is no session or the fetch failed
UserAfterGetSession ==
  IF last'.op = "sessionProfile" /\ last'.outcome = "ok"
  THEN \E k \in DOMAIN flight :
         /\ flight[k].kind = "sessionProfile"
         /\ user' = Profile(flight[k].id)
         /\ user' # None
  ELSE user' = None

\* C24: after useAuth mounts loading becomes false at some time, whether
\* there is no session, a session with a profile or a session whose profile
\* fetch fails; when getSession is what first ends loading, user is the
\* fetched profile if a session exists and its fetch succeeded, else null.
C24_LoadingEnds ==
  /\ <>(hook = "auth" /\ ~view.loading)
  /\ [](hook = "auth" /\ ~view.loading => [](~view.loading))
  /\ [][LoadingEndsThroughGetSession => UserAfterGetSession]_vars

\* the profile fetch of the initial session failed: loading ended, no user
C24_Witness ==
  /\ hook = "auth"
  /\ last.op = "sessionProfile" /\ last.outcome = "error"
  /\ ~view.loading /\ user = None
  /\ ~channels.delivered

HomePagePushes == view.page.pushes

Destination(u) == IF u # None THEN "/dashboard" ELSE "/login"

\* C29: HomePage navigates exactly once per mount and never while the auth
\* state is loading; it goes to /dashboard if user is non-null when loading
\* becomes false and to /login otherwise, and no later change of user or
\* loading makes it navigate again.
C29_HomePageNavigatesOnce ==
  /\ <>(hook = "auth" /\ Len(HomePagePushes) = 1)
  /\ [](hook = "auth" => (Len(HomePagePushes) <= 1 /\ (view.loading => HomePagePushes = <<>>)))
  /\ [][(hook = "auth" /\ view.loading /\ ~view'.loading)
          => view'.page.pushes = <<Destination(user')>>]_vars
  /\ [][(hook = "auth" /\ HomePagePushes # <<>>)
          => view'.page.pushes = HomePagePushes]_vars

\* HomePage went to /dashboard, and the user signed out afterwards
C29_Witness ==
  /\ hook = "auth"
  /\ HomePagePushes = <<"/dashboard">>
  /\ view.page.isRedirecting
  /\ user = None /\ last.op = "event" /\ last.outcome = "signedOut"

\* C25: in useLicenses and useEquipment the loading flag is true whenever at
\* least one fetch of the hook is in flight.
C25_LoadingWhileAnyFetchInFlight ==
  (hook \in AsyncListHooks /\ flight # NoFlight) => view.loading

\* the step is the answer to a fetch of useLicenses or useEquipment, refused
ListFetchFails ==
  /\ hook \in AsyncListHooks
  /\ Len(flight') < Len(flight)
  /\ last'.outcome = "fail"

\* the step starts a fetch of useLicenses or useEquipment
ListFetchStarts ==
  /\ hook \in AsyncListHooks
  /\ Len(flight') > Len(flight)

\* C26: a failing fetch of useLicenses or useEquipment sets error to the
\* failure's message, ends with loading false and leaves the displayed items
\* and pagination as they were; every fetch clears the error when it starts,
\* and once a fetch has succeeded error is null.
C26_FailureKeepsItemsAndSetsMessage ==
  /\ [][ListFetchFails
          => /\ view'.error = Some(<<"backend down">>)
             /\ view'.loading = FALSE
             /\ view'.items = view.items
             /\ view'.pagination = view.pagination]_vars
  /\ [][ListFetchStarts => view'.error = None]_vars
  /\ []((hook \in AsyncListHooks /\ last.outcome = "ok" /\ flight = NoFlight)
          => view.error = None)

\* the dashboard's latest run was for a restricted scope with no client
DashboardRanWithoutClient ==
  /\ hook = "dashboard"
  /\ last.outcome \in {"ok", "fail"}
  /\ ~last.perm.canViewAllData
  /\ last.perm.clientAccess = None

\* C30: for a restricted scope whose clientAccess is undefined useDashboard
\* returns stats = null and a non-null error without having issued any remote
\* query.
C30_NoClientNoQuery ==
  DashboardRanWithoutClient
    => /\ view.data = None
       /\ view.error # None
       /\ net = <<>>

\* the output changes only to the current input, once it has stayed the
\* same for the whole delay
DebounceEmitsSettledInput ==
  (hook = "debounce" /\ view'.debouncedValue # view.debouncedValue)
    => /\ view'.debouncedValue = view.value
       /\ view'.value = view.value /\ view'.delay = view.delay
       /\ view.stableFor >= view.delay

\* C27: useDebounce returns its initial value at mount; its output changes
\* to a value only after the input has been that value for a full delay with
\* no change of value or delay in between; an input change cancels the
\* pending timer, so a value replaced before its delay is never emitted; and
\* when the input stops changing the output becomes the last input.
C27_DebounceEmitsOnlySettledInput ==
  /\ [](hook = "debounce" /\ last.op = "mount" => view.debouncedValue = view.value)
  /\ [][DebounceEmitsSettledInput]_vars
  /\ [](hook = "debounce"
          => (Cardinality(view.timers) <= 1 /\ \A t \in view.timers : t.value = view.value))
  /\ ([]<><<DebounceInput>>_vars \/ <>[](view.debouncedValue = view.value))

\* the input went from its first value to another, stayed for the delay, and
\* the output followed when the timer fired
C27_Witness ==
  /\ hook = "debounce"
  /\ last.op = "fire"
  /\ view.delay = MaxDelay /\ view.stableFor = MaxDelay
  /\ view.debouncedValue = "ab" /\ view.value = "ab"
  /\ view.timers = {}

\* what the latest operation of usePagination must have left
PaginationOperationEffect ==
  CASE last.op = "goToPage"         -> view.page = last.arg
    [] last.op = "goToNextPage"     -> view.page = last.before + 1
    [] last.op = "goToPreviousPage" ->
         view.page = (IF last.before = 1 THEN 1 ELSE last.before - 1)
    [] last.op = "changeLimit"      -> view.limit = last.arg /\ view.page = 1
    [] last.op = "reset"            ->
         view.page = view.initialPage /\ view.limit = view.initialLimit
    [] OTHER                        ->
         view.page = view.initialPage /\ view.limit = view.initialLimit

\* C28: in usePagination with initialPage >= 1 and goToPage arguments >= 1,
\* page >= 1 after any sequence of operations; goToPreviousPage at page 1
\* leaves page 1, changeLimit(l) sets limit = l and page = 1, and reset
\* restores (initialPage, initialLimit).
C28_PageStaysPositive ==
  hook = "pagination" => (view.page >= 1 /\ PaginationOperationEffect)

\* goToPreviousPage was called on the first page after the limit was changed
C28_Witness ==
  /\ hook = "pagination"
  /\ last.op = "goToPreviousPage" /\ last.before = 1
  /\ view.page = 1
  /\ view.initialPage > 1
  /\ view.limit # view.initialLimit

=============================================================================
